---- MODULE Spec2Model ----
(***************************************************************************)
(* Verification model of the VNDB companion client:                        *)
(*   - the list-browsing state machine of VisualNovelList.tsx (search,     *)
(*     sort, infinite scroll, personal-list mode, React effects), and      *)
(*   - the response cache and the gateway operations of                    *)
(*     api/visualNovelClient (src/unnamed/part_002).                       *)
(* Specification Spec runs the whole list machine with overlapping         *)
(* fetches; SpecScroll, SpecSequential and SpecPersonalList run the        *)
(* handlers of infinite scroll, of one fetch at a time and of the          *)
(* personal-list mode; SpecGateway runs the response cache with the clock, *)
(* SpecFallback the gateway operations that have a compatibility fallback. *)
(***************************************************************************)
EXTENDS Integers, Sequences, FiniteSets, TLC

VARIABLES
    \* ---- VisualNovelList component state (useState / useRef) ----
    visualNovelDatabaseEntries,   \* displayed result sequence
    isDataLoading,
    isLoadingAdditionalPage,
    networkErrorMessage,          \* "null" or "error"
    activeSearchTerm,
    activeQueryDescriptor,
    appliedFilters,
    appliedSort,
    isViewingUserList,
    currentResultPage,
    hasAdditionalResults,
    userListStatusByIdentifier,   \* set of annotated identifiers
    debounceTimer,                \* debounceTimeoutIdentifier of the last live-search run
    scheduledTimers,              \* the timeouts set by window.setTimeout, not yet fired
    mounted,                      \* hasLiveSearchEffectInitializedReference
    \* ---- props owned by App ----
    tagSearchRequest,
    developerSearchRequest,
    authenticatedSession,
    rememberListSettings,
    \* ---- the network as seen by the component ----
    inflight,                     \* fetches started and not yet resolved, in start order
    requestCount,                 \* fetches started so far
    \* ---- history variables ----
    latestReplace,                \* the replace flow started last, and whether an
                                  \* error message was shown when it started
    lastAction,                   \* the handler that ran last
    \* ---- api/visualNovelClient module state ----
    now,                          \* Date.now()
    listQueryCache,
    userListQueryCache,
    characterQueryCache,
    calls,                        \* gateway calls suspended at an await
    callsStarted,                 \* gateway calls made so far
    clockAdvances,
    lastStep,                     \* the gateway step that ran last
    responseLog,                  \* per list cache key, the last response cached and when
    \* ---- executeAuthenticatedUserListFetch after its paging loop ----
    userListFetch,                \* its local constants, and what it sent and displayed
    \* ---- a paged read: the loop's locals and the pages it requested ----
    paging,
    \* ---- one call of a function without side effects: arguments and result ----
    evaluation,
    \* ---- RootApplication: the session, the stored token, validations in flight ----
    authentication,
    \* ---- VisualNovelList: the membership identifier effect and its fetches ----
    membership,
    \* ---- VisualNovelDetailView: the selected identifier and its fetch flows ----
    detailView,
    \* ---- CharacterDetailView: the selected trait and its lookups ----
    characterView,
    \* ---- RootApplication: the add-to-list and update-status handlers ----
    listWrite

listVars == <<visualNovelDatabaseEntries, isDataLoading, isLoadingAdditionalPage,
              networkErrorMessage, activeSearchTerm, activeQueryDescriptor,
              appliedFilters, appliedSort, isViewingUserList, currentResultPage,
              hasAdditionalResults, userListStatusByIdentifier, debounceTimer,
              scheduledTimers, mounted, tagSearchRequest, developerSearchRequest,
              authenticatedSession, rememberListSettings, inflight, requestCount,
              latestReplace, lastAction>>

gatewayVars == <<now, listQueryCache, userListQueryCache, characterQueryCache,
                 calls, callsStarted, clockAdvances, lastStep, responseLog>>

viewVars == <<membership, detailView, characterView, listWrite>>

detachedVars == <<userListFetch, paging, evaluation, authentication, viewVars>>

vars == <<listVars, gatewayVars, detachedVars>>

-----------------------------------------------------------------------------
(* Bounds of the model *)

\* fetches the whole list machine may start in one behaviour, and pending at once
MaxFetches == 2
MaxInFlight == 2
\* fetches of the search-and-scroll part of the machine
MaxScrollFetches == 3
\* fetches when every response arrives before the next fetch starts
MaxSequentialFetches == 4
\* fetches started in the runs of the debounced live search
MaxLiveSearchFetches == 3

OverlappingLimits == [fetches |-> MaxFetches, inflight |-> MaxInFlight]
ScrollLimits == [fetches |-> MaxScrollFetches, inflight |-> MaxInFlight]
SequentialLimits == [fetches |-> MaxSequentialFetches, inflight |-> 1]
LiveSearchLimits == [fetches |-> MaxLiveSearchFetches, inflight |-> MaxInFlight]

\* What the user can type, select and choose.
TypedTerms == {"", "a"}
TagNames == {"tag1"}
DeveloperNames == {"dev1"}
SortFieldChoices == {"default", "title", "released"}
FilterChoices == {"default", "custom"}

-----------------------------------------------------------------------------
(* Values *)

\* Body applied to value, with value computed once
With(value, Body(_)) == CHOOSE result \in {Body(bound) : bound \in {value}} : TRUE

DefaultFilterState == "default"
DEFAULT_SORT_STATE == [field |-> "default", direction |-> "desc"]

NoIdentifier == "undefined"

TextDescriptor(term, filters, sort) ==
    [kind |-> "text", term |-> term, tagIdentifier |-> NoIdentifier,
     developerIdentifier |-> NoIdentifier, filters |-> filters, sort |-> sort]

TagDescriptor(request, filters, sort) ==
    [kind |-> "tag", term |-> request.name, tagIdentifier |-> request.identifier,
     developerIdentifier |-> NoIdentifier, filters |-> filters, sort |-> sort]

DeveloperDescriptor(request, filters, sort) ==
    [kind |-> "developer", term |-> request.name, tagIdentifier |-> NoIdentifier,
     developerIdentifier |-> request.identifier, filters |-> filters, sort |-> sort]

\* the placeholder carried by a personal-list flow, which has no descriptor
UserListSource ==
    [kind |-> "ulist", term |-> "", tagIdentifier |-> NoIdentifier,
     developerIdentifier |-> NoIdentifier, filters |-> DefaultFilterState,
     sort |-> DEFAULT_SORT_STATE]

NullRequest == [present |-> FALSE, name |-> "", identifier |-> NoIdentifier]
NoTimer == [pending |-> FALSE, id |-> 0, term |-> "", filters |-> DefaultFilterState,
            sort |-> DEFAULT_SORT_STATE]

\* window.setTimeout returns an identifier no pending timeout has
setTimeoutIdentifier(timers) ==
    CHOOSE id \in 1..(Cardinality(timers) + 1) :
        /\ \A timer \in timers : timer.id # id
        /\ \A smaller \in 1..(id - 1) : \E timer \in timers : timer.id = smaller

\* window.clearTimeout: the timeout of that identifier, if still pending, is dropped
clearTimeout(timers, id) == {timer \in timers : timer.id # id}

NullRating == [isNull |-> TRUE, value |-> 0]
Rated(n) == [isNull |-> FALSE, value |-> n]

-----------------------------------------------------------------------------
(* The remote catalog: what POST /vn answers for a descriptor and a page. *)

ServerPageSizes(queryDescriptor) ==
    CASE queryDescriptor.kind = "text" /\ queryDescriptor.term = "" -> <<2, 2, 1>>
      [] queryDescriptor.kind = "text" -> <<2, 1>>
      [] queryDescriptor.kind = "tag" -> <<1, 1>>
      [] OTHER -> <<2>>

ServerPageCount(queryDescriptor) == Len(ServerPageSizes(queryDescriptor))

\* every record names the query that produced it, so two result sets of two
\* descriptors never coincide
ServerResults(queryDescriptor, pageNumber) ==
    IF pageNumber > ServerPageCount(queryDescriptor) THEN <<>>
    ELSE [index \in 1..ServerPageSizes(queryDescriptor)[pageNumber] |->
            [id |-> <<pageNumber, index>>,
             title |-> [startsWithDigit |-> (index = 1), rank |-> pageNumber],
             rating |-> IF index = 1 THEN Rated(pageNumber) ELSE NullRating,
             source |-> queryDescriptor]]

ServerMore(queryDescriptor, pageNumber) == pageNumber < ServerPageCount(queryDescriptor)

\* the caller's personal list as the paged /ulist fetch and hydration deliver it
UserListEntries ==
    << [id |-> <<2>>, title |-> [startsWithDigit |-> FALSE, rank |-> 2],
        rating |-> Rated(7), source |-> UserListSource],
       [id |-> <<1, 0>>, title |-> [startsWithDigit |-> TRUE, rank |-> 3],
        rating |-> NullRating, source |-> UserListSource],
       [id |-> <<3>>, title |-> [startsWithDigit |-> FALSE, rank |-> 1],
        rating |-> Rated(4), source |-> UserListSource] >>

-----------------------------------------------------------------------------
(* sortVisualNovelEntries *)

\* String.prototype.localeCompare on two identifiers: digit strings compared
\* character by character
RECURSIVE IdentifierCompare(_, _)
IdentifierCompare(first, second) ==
    IF first = <<>> /\ second = <<>> THEN 0
    ELSE IF first = <<>> THEN -1
    ELSE IF second = <<>> THEN 1
    ELSE IF Head(first) < Head(second) THEN -1
    ELSE IF Head(first) > Head(second) THEN 1
    ELSE IdentifierCompare(Tail(first), Tail(second))

\* the comparator handed to Array.prototype.sort
CompareEntries(firstEntry, secondEntry, sortConfiguration) ==
    IF sortConfiguration.field = "title"
    THEN IF firstEntry.title.startsWithDigit # secondEntry.title.startsWithDigit
         THEN (IF firstEntry.title.startsWithDigit THEN -1 ELSE 1)
         ELSE firstEntry.title.rank - secondEntry.title.rank
    ELSE IF sortConfiguration.field = "rating"
    THEN (IF firstEntry.rating.isNull THEN -1 ELSE firstEntry.rating.value)
         - (IF secondEntry.rating.isNull THEN -1 ELSE secondEntry.rating.value)
    ELSE IF sortConfiguration.field = "id"
    THEN IdentifierCompare(firstEntry.id, secondEntry.id)
    ELSE 0

\* insertion of one entry behind every entry that does not compare greater:
\* Array.prototype.sort is stable
RECURSIVE InsertSorted(_, _, _)
InsertSorted(entry, sorted, sortConfiguration) ==
  With(sorted, LAMBDA sortedEntries :
    IF sortedEntries = <<>> THEN <<entry>>
    ELSE IF CompareEntries(entry, Head(sortedEntries), sortConfiguration) < 0
         THEN <<entry>> \o sortedEntries
         ELSE <<Head(sortedEntries)>>
              \o InsertSorted(entry, Tail(sortedEntries), sortConfiguration))

RECURSIVE StableSort(_, _)
StableSort(entries, sortConfiguration) ==
  With(entries, LAMBDA entriesToSort :
    IF entriesToSort = <<>> THEN <<>>
    ELSE InsertSorted(entriesToSort[Len(entriesToSort)],
                      StableSort(SubSeq(entriesToSort, 1, Len(entriesToSort) - 1),
                                 sortConfiguration),
                      sortConfiguration))

Reverse(sequence) == [index \in 1..Len(sequence) |-> sequence[Len(sequence) + 1 - index]]

sortVisualNovelEntries(entriesToSort, sortConfiguration) ==
    IF sortConfiguration.field = "default" THEN entriesToSort
    ELSE LET sortedEntries == StableSort(entriesToSort, sortConfiguration)
         IN  IF sortConfiguration.direction = "desc" THEN Reverse(sortedEntries)
             ELSE sortedEntries

-----------------------------------------------------------------------------
(* The component state as one value, so that a handler and the effects it  *)
(* triggers compose as functions state -> state.  "touched" collects the   *)
(* object-valued dependencies that received a fresh object.                *)

Snapshot ==
    [visualNovelDatabaseEntries |-> visualNovelDatabaseEntries,
     isDataLoading |-> isDataLoading,
     isLoadingAdditionalPage |-> isLoadingAdditionalPage,
     networkErrorMessage |-> networkErrorMessage,
     activeSearchTerm |-> activeSearchTerm,
     activeQueryDescriptor |-> activeQueryDescriptor,
     appliedFilters |-> appliedFilters,
     appliedSort |-> appliedSort,
     isViewingUserList |-> isViewingUserList,
     currentResultPage |-> currentResultPage,
     hasAdditionalResults |-> hasAdditionalResults,
     userListStatusByIdentifier |-> userListStatusByIdentifier,
     debounceTimer |-> debounceTimer,
     scheduledTimers |-> scheduledTimers,
     mounted |-> mounted,
     tagSearchRequest |-> tagSearchRequest,
     developerSearchRequest |-> developerSearchRequest,
     authenticatedSession |-> authenticatedSession,
     rememberListSettings |-> rememberListSettings,
     inflight |-> inflight,
     requestCount |-> requestCount,
     latestReplace |-> latestReplace,
     touched |-> {}]

Commit(state, action) ==
    /\ visualNovelDatabaseEntries' = state.visualNovelDatabaseEntries
    /\ isDataLoading' = state.isDataLoading
    /\ isLoadingAdditionalPage' = state.isLoadingAdditionalPage
    /\ networkErrorMessage' = state.networkErrorMessage
    /\ activeSearchTerm' = state.activeSearchTerm
    /\ activeQueryDescriptor' = state.activeQueryDescriptor
    /\ appliedFilters' = state.appliedFilters
    /\ appliedSort' = state.appliedSort
    /\ isViewingUserList' = state.isViewingUserList
    /\ currentResultPage' = state.currentResultPage
    /\ hasAdditionalResults' = state.hasAdditionalResults
    /\ userListStatusByIdentifier' = state.userListStatusByIdentifier
    /\ debounceTimer' = state.debounceTimer
    /\ scheduledTimers' = state.scheduledTimers
    /\ mounted' = state.mounted
    /\ tagSearchRequest' = state.tagSearchRequest
    /\ developerSearchRequest' = state.developerSearchRequest
    /\ authenticatedSession' = state.authenticatedSession
    /\ rememberListSettings' = state.rememberListSettings
    /\ inflight' = state.inflight
    /\ requestCount' = state.requestCount
    /\ latestReplace' = state.latestReplace
    /\ lastAction' = action
    /\ UNCHANGED <<gatewayVars, detachedVars>>

-----------------------------------------------------------------------------
(* executeDataFetchOperation up to its await, and                          *)
(* executeAuthenticatedUserListFetch up to its first await                 *)

executeDataFetchOperation(current, queryDescriptor, pageNumber, shouldAppendResults) ==
  With(current, LAMBDA state :
    [state EXCEPT
        !.isLoadingAdditionalPage = IF shouldAppendResults THEN TRUE ELSE @,
        !.isDataLoading = IF shouldAppendResults THEN @ ELSE TRUE,
        !.networkErrorMessage = "null",
        !.inflight = Append(@, [id |-> state.requestCount + 1,
                                flow |-> "search",
                                queryDescriptor |-> queryDescriptor,
                                pageNumber |-> pageNumber,
                                shouldAppendResults |-> shouldAppendResults,
                                sort |-> queryDescriptor.sort,
                                isUnmounted |-> FALSE]),
        !.requestCount = @ + 1,
        !.latestReplace = IF shouldAppendResults THEN @
                          ELSE [id |-> state.requestCount + 1, flow |-> "search",
                                queryDescriptor |-> queryDescriptor,
                                startedInError |->
                                    state.networkErrorMessage # "null",
                                committed |-> FALSE]])

\* the sortField and reverseSort members of the queryConfiguration that
\* executeDataFetchOperation hands to fetchVisualNovelEntries
QuerySortParameters(sort) ==
    [sortField |-> IF sort.field = "default" THEN "undefined" ELSE sort.field,
     reverseSort |-> IF sort.field = "default" THEN "undefined"
                     ELSE IF sort.direction = "desc" THEN "true" ELSE "false"]

\* render: the snapshot whose closure the function instance holds
executeAuthenticatedUserListFetch(render, current) ==
  With(current, LAMBDA state :
    IF ~render.authenticatedSession
    THEN [state EXCEPT !.networkErrorMessage = "error"]
    ELSE [state EXCEPT
            !.isDataLoading = TRUE,
            !.networkErrorMessage = "null",
            !.inflight = Append(@, [id |-> state.requestCount + 1,
                                    flow |-> "ulist",
                                    queryDescriptor |-> UserListSource,
                                    pageNumber |-> 1,
                                    shouldAppendResults |-> FALSE,
                                    sort |-> render.appliedSort,
                                    isUnmounted |-> FALSE]),
            !.requestCount = @ + 1,
            !.latestReplace = [id |-> state.requestCount + 1, flow |-> "ulist",
                               queryDescriptor |-> UserListSource,
                               startedInError |->
                                   state.networkErrorMessage # "null",
                               committed |-> FALSE]])

executeSearchWithFilters(render, state, searchTerm, filters) ==
    executeDataFetchOperation(state,
        TextDescriptor(searchTerm, filters, render.appliedSort), 1, FALSE)

-----------------------------------------------------------------------------
(* The useEffect hooks of VisualNovelList, in declaration order.  Each     *)
(* reads the render snapshot (its closure) and adds its setState calls to  *)
(* the state being accumulated.                                            *)

RememberSettingsEffect(render, state) ==
    IF render.rememberListSettings \/ render.isViewingUserList THEN state
    ELSE executeDataFetchOperation(
            [state EXCEPT !.appliedFilters = DefaultFilterState,
                          !.appliedSort = DEFAULT_SORT_STATE,
                          !.touched = @ \cup {"appliedFilters", "appliedSort"}],
            [render.activeQueryDescriptor EXCEPT !.filters = DefaultFilterState,
                                                 !.sort = DEFAULT_SORT_STATE],
            1, FALSE)

BootstrapEffect(render, state) ==
    IF render.tagSearchRequest.present THEN state
    ELSE executeDataFetchOperation(state,
            TextDescriptor("", render.appliedFilters, render.appliedSort), 1, FALSE)

\* the effect body: the callback scheduled closes over the render's values
LiveSearchDebounceBody(render, state) ==
    IF ~render.mounted THEN [state EXCEPT !.mounted = TRUE]
    ELSE IF render.isViewingUserList \/ render.tagSearchRequest.present
            \/ render.developerSearchRequest.present
    THEN [state EXCEPT !.debounceTimer = NoTimer]
    ELSE With(setTimeoutIdentifier(state.scheduledTimers), LAMBDA identifier :
            [state EXCEPT
                !.debounceTimer =
                    [pending |-> TRUE, id |-> identifier,
                     term |-> render.activeSearchTerm,
                     filters |-> render.appliedFilters, sort |-> render.appliedSort],
                !.scheduledTimers = @ \cup
                    {[id |-> identifier, term |-> render.activeSearchTerm,
                      filters |-> render.appliedFilters,
                      sort |-> render.appliedSort]}])

LiveSearchDebounceEffectWithoutCleanup(render, state) ==
    LiveSearchDebounceBody(render, state)

\* the cleanup of the previous run (clearTimeout), then the effect body
LiveSearchDebounceEffect(render, state) ==
    LiveSearchDebounceBody(render,
        [state EXCEPT !.scheduledTimers = clearTimeout(@, state.debounceTimer.id)])

HomeNavigationEffect(render, state) ==
    executeDataFetchOperation(
        [state EXCEPT !.isViewingUserList = FALSE,
                      !.userListStatusByIdentifier = {},
                      !.activeSearchTerm = "",
                      !.appliedFilters = DefaultFilterState,
                      !.appliedSort = DEFAULT_SORT_STATE,
                      !.touched = @ \cup {"appliedFilters", "appliedSort"}],
        TextDescriptor("", DefaultFilterState, DEFAULT_SORT_STATE), 1, FALSE)

TagSearchRequestEffectKeepingMode(render, state) ==
    IF ~render.tagSearchRequest.present THEN state
    ELSE executeDataFetchOperation(
            [state EXCEPT !.activeSearchTerm = render.tagSearchRequest.name],
            TagDescriptor(render.tagSearchRequest, render.appliedFilters,
                          render.appliedSort),
            1, FALSE)

TagSearchRequestEffect(render, state) ==
    IF ~render.tagSearchRequest.present THEN state
    ELSE executeDataFetchOperation(
            [state EXCEPT !.isViewingUserList = FALSE,
                          !.userListStatusByIdentifier = {},
                          !.activeSearchTerm = render.tagSearchRequest.name],
            TagDescriptor(render.tagSearchRequest, render.appliedFilters,
                          render.appliedSort),
            1, FALSE)

DeveloperSearchRequestEffect(render, state) ==
    IF ~render.developerSearchRequest.present THEN state
    ELSE executeDataFetchOperation(
            [state EXCEPT !.isViewingUserList = FALSE,
                          !.userListStatusByIdentifier = {},
                          !.activeSearchTerm = render.developerSearchRequest.name],
            DeveloperDescriptor(render.developerSearchRequest, render.appliedFilters,
                                render.appliedSort),
            1, FALSE)

SessionClearedEffect(render, state) ==
    IF render.authenticatedSession THEN state
    ELSE [state EXCEPT !.isViewingUserList = FALSE,
                       !.userListStatusByIdentifier = {}]

\* the dependencies that differ between two renders: values compared with
\* Object.is, so a fresh object counts as changed whatever it holds
ChangedDependencies(before, after) ==
    after.touched
    \cup {name \in {"activeSearchTerm", "isViewingUserList", "authenticatedSession",
                    "rememberListSettings"} : before[name] # after[name]}

\* one commit phase: every effect one of whose dependencies changed runs once
EffectsPass(rendered, changed, isMount) ==
  With(rendered, LAMBDA render :
    LET Fires(dependencies) == isMount \/ (changed \cap dependencies # {})
        s0 == [render EXCEPT !.touched = {}]
        s1 == IF Fires({"rememberListSettings", "isViewingUserList"})
              THEN RememberSettingsEffect(render, s0) ELSE s0
        s2 == IF isMount THEN BootstrapEffect(render, s1) ELSE s1
        s3 == IF Fires({"activeSearchTerm", "appliedFilters", "appliedSort",
                        "isViewingUserList", "tagSearchRequest",
                        "developerSearchRequest"})
              THEN LiveSearchDebounceEffect(render, s2) ELSE s2
        s4 == IF "homeNavigationRequestToken" \in changed
              THEN HomeNavigationEffect(render, s3) ELSE s3
        s5 == IF Fires({"tagSearchRequest", "appliedFilters", "appliedSort"})
              THEN TagSearchRequestEffect(render, s4) ELSE s4
        s6 == IF Fires({"developerSearchRequest", "appliedFilters", "appliedSort"})
              THEN DeveloperSearchRequestEffect(render, s5) ELSE s5
        s7 == IF Fires({"authenticatedSession"})
              THEN SessionClearedEffect(render, s6) ELSE s6
    IN  s7)

\* render, run the effects, and render again while an effect changed a dependency
RECURSIVE Settle(_, _, _)
Settle(render, changed, isMount) ==
    With(EffectsPass(render, changed, isMount), LAMBDA after :
        With(ChangedDependencies(render, after), LAMBDA next :
            IF next = {} THEN after ELSE Settle(after, next, FALSE)))

\* an event handler that left the component in handled, followed by its effects
RunHandler(handler) ==
    With(handler, LAMBDA handled :
        Settle(handled, ChangedDependencies(Snapshot, handled), FALSE))

WithinBounds(state, limits) ==
    /\ state.requestCount <= limits.fetches
    /\ Len(state.inflight) <= limits.inflight

\* the step of the machine that leaves it in state
Step(state, action, limits) ==
    \E reached \in {state} :
        /\ WithinBounds(reached, limits)
        /\ Commit(reached, action)

-----------------------------------------------------------------------------
(* Initial state: the useState initial values of VisualNovelList and App,  *)
(* and the empty module-level caches of the API client.                    *)

ListInit ==
    /\ visualNovelDatabaseEntries = <<>>
    /\ isDataLoading = TRUE
    /\ isLoadingAdditionalPage = FALSE
    /\ networkErrorMessage = "null"
    /\ activeSearchTerm = ""
    /\ activeQueryDescriptor = TextDescriptor("", DefaultFilterState, DEFAULT_SORT_STATE)
    /\ appliedFilters = DefaultFilterState
    /\ appliedSort = DEFAULT_SORT_STATE
    /\ isViewingUserList = FALSE
    /\ currentResultPage = 1
    /\ hasAdditionalResults = FALSE
    /\ userListStatusByIdentifier = {}
    /\ debounceTimer = NoTimer
    /\ scheduledTimers = {}
    /\ mounted = FALSE
    /\ tagSearchRequest = NullRequest
    /\ developerSearchRequest = NullRequest
    /\ authenticatedSession = FALSE
    /\ rememberListSettings = TRUE
    /\ inflight = <<>>
    /\ requestCount = 0
    /\ latestReplace = [id |-> 0, flow |-> "search",
                        queryDescriptor |-> TextDescriptor("", DefaultFilterState,
                                                           DEFAULT_SORT_STATE),
                        startedInError |-> FALSE,
                        committed |-> FALSE]
    /\ lastAction = "init"

-----------------------------------------------------------------------------
(* Actions of the list machine: one per event handler, timer or response,  *)
(* each followed by the effects its state changes trigger.                 *)

\* first render: every effect runs once
Mount(limits) ==
    /\ ~mounted
    /\ LET state == Settle(Snapshot, {}, TRUE)
       IN  Step(state, "Mount", limits)

\* onChange of the search input
HandleSearchInputChange(term, limits) ==
    /\ mounted
    /\ term # activeSearchTerm
    /\ LET state == RunHandler([Snapshot EXCEPT !.activeSearchTerm = term])
       IN  Step(state, "HandleSearchInputChange", limits)

\* the 350 ms timeout of the live search fires
DebounceTimerFires(limits) ==
    /\ mounted
    /\ \E timer \in scheduledTimers :
        LET cleared == [Snapshot EXCEPT
                           !.scheduledTimers = @ \ {timer},
                           !.debounceTimer = IF @.id = timer.id THEN NoTimer ELSE @,
                           !.userListStatusByIdentifier = {}]
            state == RunHandler(executeDataFetchOperation(cleared,
                        TextDescriptor(timer.term, timer.filters, timer.sort),
                        1, FALSE))
        IN  Step(state, "DebounceTimerFires", limits)

handleSearchFormSubmission(limits) ==
    /\ mounted
    /\ LET handled == executeSearchWithFilters(Snapshot,
                        [Snapshot EXCEPT !.isViewingUserList = FALSE,
                                         !.userListStatusByIdentifier = {}],
                        activeSearchTerm, appliedFilters)
           state == RunHandler(handled)
       IN  Step(state, "handleSearchFormSubmission", limits)

\* onClick of the "My VN List" / "Back to Search" button, rendered with a session
HandleUserListToggle(limits) ==
    /\ mounted
    /\ authenticatedSession
    /\ LET handled ==
               IF isViewingUserList
               THEN executeSearchWithFilters(Snapshot,
                        [Snapshot EXCEPT !.isViewingUserList = FALSE,
                                         !.userListStatusByIdentifier = {}],
                        activeSearchTerm, appliedFilters)
               ELSE executeAuthenticatedUserListFetch(Snapshot, Snapshot)
           state == RunHandler(handled)
       IN  Step(state, "HandleUserListToggle", limits)

SortChangeHandler(updatedSortState) ==
    LET sorted == [Snapshot EXCEPT !.appliedSort = updatedSortState,
                                   !.touched = @ \cup {"appliedSort"}]
    IN  IF isViewingUserList
        THEN [sorted EXCEPT !.visualNovelDatabaseEntries =
                                sortVisualNovelEntries(@, updatedSortState)]
        ELSE executeDataFetchOperation(sorted,
                [activeQueryDescriptor EXCEPT !.sort = updatedSortState], 1, FALSE)

handleSortFieldChange(sortField, limits) ==
    /\ mounted
    /\ sortField # appliedSort.field
    /\ LET updatedSortState ==
               [field |-> sortField,
                direction |-> IF sortField = "title" THEN "asc"
                              ELSE appliedSort.direction]
           state == RunHandler(SortChangeHandler(updatedSortState))
       IN  Step(state, "handleSortFieldChange", limits)

handleSortDirectionToggle(limits) ==
    /\ mounted
    /\ LET updatedSortState ==
               [field |-> appliedSort.field,
                direction |-> IF appliedSort.direction = "asc" THEN "desc" ELSE "asc"]
           state == RunHandler(SortChangeHandler(updatedSortState))
       IN  Step(state, "handleSortDirectionToggle", limits)

\* the draft edited to draftFilters, then "Apply"
handleFilterApplication(draftFilters, limits) ==
    /\ mounted
    /\ LET applied == [Snapshot EXCEPT
                          !.appliedFilters = draftFilters,
                          !.touched = IF draftFilters = appliedFilters THEN @
                                      ELSE @ \cup {"appliedFilters"}]
           state == RunHandler(executeDataFetchOperation(applied,
                        [activeQueryDescriptor EXCEPT !.filters = draftFilters],
                        1, FALSE))
       IN  Step(state, "handleFilterApplication", limits)

PaginationTriggerAlwaysRendered == TRUE

\* the element the IntersectionObserver watches is part of the result block,
\* which is rendered only while no replace is loading and no error is shown
PaginationTriggerRendered == ~isDataLoading /\ networkErrorMessage = "null"

\* the IntersectionObserver callback: the pagination trigger came into view
loadNextPage(limits) ==
    /\ mounted
    /\ PaginationTriggerRendered
    /\ LET state ==
               IF isViewingUserList \/ isDataLoading \/ isLoadingAdditionalPage
                  \/ ~hasAdditionalResults
               THEN Snapshot
               ELSE executeDataFetchOperation(Snapshot, activeQueryDescriptor,
                                              currentResultPage + 1, TRUE)
       IN  Step(RunHandler(state), "loadNextPage", limits)

\* App.handleTagSelection: a fresh request object every time
handleTagSelection(tagName, limits) ==
    /\ mounted
    /\ LET handled == [Snapshot EXCEPT
                          !.tagSearchRequest = [present |-> TRUE, name |-> tagName,
                                                identifier |-> tagName],
                          !.touched = @ \cup {"tagSearchRequest"}]
           state == RunHandler(handled)
       IN  Step(state, "handleTagSelection", limits)

handleDeveloperSelection(developerName, limits) ==
    /\ mounted
    /\ LET handled == [Snapshot EXCEPT
                          !.developerSearchRequest =
                              [present |-> TRUE, name |-> developerName,
                               identifier |-> developerName],
                          !.touched = @ \cup {"developerSearchRequest"}]
           state == RunHandler(handled)
       IN  Step(state, "handleDeveloperSelection", limits)

\* App.handleNavigateToHome: both requests cleared, the home token incremented
handleNavigateToHome(limits) ==
    /\ mounted
    /\ LET handled == [Snapshot EXCEPT
                          !.tagSearchRequest = NullRequest,
                          !.developerSearchRequest = NullRequest,
                          !.touched = @ \cup {"homeNavigationRequestToken"}
                              \cup (IF tagSearchRequest.present
                                    THEN {"tagSearchRequest"} ELSE {})
                              \cup (IF developerSearchRequest.present
                                    THEN {"developerSearchRequest"} ELSE {})]
           state == RunHandler(handled)
       IN  Step(state, "handleNavigateToHome", limits)

\* App.applyAuthenticationToken after a successful validation
SessionEstablished(limits) ==
    /\ mounted
    /\ ~authenticatedSession
    /\ Step(RunHandler([Snapshot EXCEPT !.authenticatedSession = TRUE]),
            "SessionEstablished", limits)

\* createInitialFilterState and createInitialSortState of the next mount: the
\* stored settings are the applied ones while they are remembered, and removed
\* otherwise
createInitialFilterState(state) ==
    IF state.rememberListSettings THEN state.appliedFilters ELSE DefaultFilterState

createInitialSortState(state) ==
    IF state.rememberListSettings THEN state.appliedSort ELSE DEFAULT_SORT_STATE

\* a logout that leaves the list mounted, with its state and its fetches
UnmountKeepingState(state) == state

\* the list leaves the tree: its state is discarded (the next mount starts from
\* the useState initial values), the cleanup of the live-search effect clears the
\* timeout, and the state updates of its pending fetches will be dropped
Unmount(state) ==
    [state EXCEPT
        !.visualNovelDatabaseEntries = <<>>,
        !.isDataLoading = TRUE,
        !.isLoadingAdditionalPage = FALSE,
        !.networkErrorMessage = "null",
        !.activeSearchTerm = "",
        !.activeQueryDescriptor = TextDescriptor("", createInitialFilterState(state),
                                                 createInitialSortState(state)),
        !.appliedFilters = createInitialFilterState(state),
        !.appliedSort = createInitialSortState(state),
        !.isViewingUserList = FALSE,
        !.currentResultPage = 1,
        !.hasAdditionalResults = FALSE,
        !.userListStatusByIdentifier = {},
        !.debounceTimer = NoTimer,
        !.scheduledTimers = {},
        !.mounted = FALSE,
        !.inflight = [position \in 1..Len(state.inflight) |->
                         [state.inflight[position] EXCEPT !.isUnmounted = TRUE]]]

\* setAuthenticatedSession(null) and setIsOnboardingRequired(true) in one batch:
\* the next render of App returns the onboarding screen, without the list
handleConfirmLogout(limits) ==
    /\ mounted
    /\ authenticatedSession
    /\ Step(Unmount([Snapshot EXCEPT !.authenticatedSession = FALSE]),
            "handleConfirmLogout", limits)

\* the display-preferences checkbox of App
RememberListSettingsChange(limits) ==
    /\ mounted
    /\ LET state == RunHandler([Snapshot EXCEPT !.rememberListSettings = ~@])
       IN  Step(state, "RememberListSettingsChange", limits)

RemoveAt(sequence, position) ==
    SubSeq(sequence, 1, position - 1) \o SubSeq(sequence, position + 1, Len(sequence))

\* a continuation that empties the list when the fetch fails
DataFetchContinuationClearingOnFailure(state, request, succeeded) ==
    LET settled ==
            IF succeeded
            THEN [state EXCEPT
                    !.visualNovelDatabaseEntries =
                        IF request.shouldAppendResults
                        THEN @ \o ServerResults(request.queryDescriptor,
                                                request.pageNumber)
                        ELSE ServerResults(request.queryDescriptor,
                                           request.pageNumber),
                    !.currentResultPage = request.pageNumber,
                    !.hasAdditionalResults = ServerMore(request.queryDescriptor,
                                                        request.pageNumber),
                    !.activeQueryDescriptor = request.queryDescriptor,
                    !.latestReplace = IF request.id = @.id
                                      THEN [@ EXCEPT !.committed = TRUE] ELSE @]
            ELSE [state EXCEPT !.networkErrorMessage = "error",
                               !.visualNovelDatabaseEntries = <<>>]
    IN  IF request.shouldAppendResults
        THEN [settled EXCEPT !.isLoadingAdditionalPage = FALSE]
        ELSE [settled EXCEPT !.isDataLoading = FALSE]

\* a continuation that puts an appended page in front of the accumulated list
DataFetchContinuationPrepending(state, request, succeeded) ==
    LET settled ==
            IF succeeded
            THEN [state EXCEPT
                    !.visualNovelDatabaseEntries =
                        IF request.shouldAppendResults
                        THEN ServerResults(request.queryDescriptor,
                                           request.pageNumber) \o @
                        ELSE ServerResults(request.queryDescriptor,
                                           request.pageNumber),
                    !.currentResultPage = request.pageNumber,
                    !.hasAdditionalResults = ServerMore(request.queryDescriptor,
                                                        request.pageNumber),
                    !.activeQueryDescriptor = request.queryDescriptor,
                    !.latestReplace = IF request.id = @.id
                                      THEN [@ EXCEPT !.committed = TRUE] ELSE @]
            ELSE [state EXCEPT !.networkErrorMessage = "error"]
    IN  IF request.shouldAppendResults
        THEN [settled EXCEPT !.isLoadingAdditionalPage = FALSE]
        ELSE [settled EXCEPT !.isDataLoading = FALSE]

\* the continuation of executeDataFetchOperation after its await:
\* try (success), catch (failure), finally
DataFetchContinuation(state, request, succeeded) ==
    LET settled ==
            IF succeeded
            THEN [state EXCEPT
                    !.visualNovelDatabaseEntries =
                        IF request.shouldAppendResults
                        THEN @ \o ServerResults(request.queryDescriptor,
                                                request.pageNumber)
                        ELSE ServerResults(request.queryDescriptor,
                                           request.pageNumber),
                    !.currentResultPage = request.pageNumber,
                    !.hasAdditionalResults = ServerMore(request.queryDescriptor,
                                                        request.pageNumber),
                    !.activeQueryDescriptor = request.queryDescriptor,
                    !.latestReplace = IF request.id = @.id
                                      THEN [@ EXCEPT !.committed = TRUE] ELSE @]
            ELSE [state EXCEPT !.networkErrorMessage = "error"]
    IN  IF request.shouldAppendResults
        THEN [settled EXCEPT !.isLoadingAdditionalPage = FALSE]
        ELSE [settled EXCEPT !.isDataLoading = FALSE]

\* the continuation of executeAuthenticatedUserListFetch after its awaits
UserListFetchContinuation(state, request, succeeded) ==
    LET settled ==
            IF succeeded
            THEN [state EXCEPT
                    !.visualNovelDatabaseEntries =
                        sortVisualNovelEntries(UserListEntries, request.sort),
                    !.userListStatusByIdentifier =
                        {UserListEntries[index].id :
                            index \in 1..Len(UserListEntries)},
                    !.currentResultPage = 1,
                    !.hasAdditionalResults = FALSE,
                    !.isViewingUserList = TRUE,
                    !.latestReplace = IF request.id = @.id
                                      THEN [@ EXCEPT !.committed = TRUE] ELSE @]
            ELSE [state EXCEPT !.networkErrorMessage = "error"]
    IN  [settled EXCEPT !.isDataLoading = FALSE]

\* a pending fetch resolves (succeeded) or rejects; responses arrive in any order
FetchResolves(position, succeeded, limits) ==
    /\ position \in 1..Len(inflight)
    /\ LET request == inflight[position]
           removed == [Snapshot EXCEPT !.inflight = RemoveAt(@, position)]
           state == IF request.flow = "search"
                    THEN DataFetchContinuation(removed, request, succeeded)
                    ELSE UserListFetchContinuation(removed, request, succeeded)
       IN  IF request.isUnmounted
           THEN Step(removed, IF request.flow = "search" THEN "DataFetchDropped"
                              ELSE "UserListFetchDropped", limits)
           ELSE Step(RunHandler(state),
                     IF succeeded THEN "FetchResolves" ELSE "FetchRejects", limits)

ListNext(limits) ==
    \/ Mount(limits)
    \/ \E term \in TypedTerms : HandleSearchInputChange(term, limits)
    \/ DebounceTimerFires(limits)
    \/ handleSearchFormSubmission(limits)
    \/ HandleUserListToggle(limits)
    \/ \E sortField \in SortFieldChoices : handleSortFieldChange(sortField, limits)
    \/ handleSortDirectionToggle(limits)
    \/ \E draftFilters \in FilterChoices : handleFilterApplication(draftFilters, limits)
    \/ loadNextPage(limits)
    \/ \E tagName \in TagNames : handleTagSelection(tagName, limits)
    \/ \E developerName \in DeveloperNames : handleDeveloperSelection(developerName, limits)
    \/ handleNavigateToHome(limits)
    \/ SessionEstablished(limits)
    \/ handleConfirmLogout(limits)
    \/ RememberListSettingsChange(limits)
    \/ \E position \in 1..Len(inflight) : \E succeeded \in BOOLEAN :
           FetchResolves(position, succeeded, limits)

-----------------------------------------------------------------------------
(* api/visualNovelClient: the response cache and the gateway operations.   *)
(* A gateway call runs synchronously up to its next await; the remote      *)
(* answers a suspended call in a later step.                               *)

CACHE_TIME_TO_LIVE_MILLISECONDS == 5 * 60 * 1000

MaxGatewayCalls == 3
MaxConcurrentCalls == 2
MaxClockAdvances == 2
MaxFallbackCalls == 2

CacheLimits == [started |-> MaxGatewayCalls, calls |-> MaxConcurrentCalls,
                clock |-> MaxClockAdvances]
FallbackLimits == [started |-> MaxFallbackCalls, calls |-> 1, clock |-> 0]

ClockSteps == {1, CACHE_TIME_TO_LIVE_MILLISECONDS}

\* ---- values ----

\* a JSON value as the sequence of its tokens; undefined is not serialisable
JsonValue(tokens) == [defined |-> TRUE, tokens |-> tokens]
Undefined == [defined |-> FALSE, tokens |-> <<>>]

\* JSON.stringify of an object literal: the members in order, without the
\* members whose value is undefined
JsonStringify(members) == SelectSeq(members, LAMBDA member : member[2].defined)

\* a response body: version tells apart the answers the remote gives to the
\* same request at different times
NullPayload == [isNull |-> TRUE, version |-> 0, isEmpty |-> TRUE]
ResponsePayload(version, isEmpty) == [isNull |-> FALSE, version |-> version, isEmpty |-> isEmpty]
PayloadVersions(operation) ==
    IF operation = "fetchVisualNovelEntries" THEN {1, 2} ELSE {1}
\* { results: [], more: false }
EmptyCharacterResponse == ResponsePayload(0, TRUE)

EmptyStore == [cacheKey \in {} |-> [expiresAt |-> 0, payload |-> NullPayload]]

\* what a fetch() settles with: a response with a status, or a rejection
Response(status, isEmpty) == [reached |-> TRUE, status |-> status, isEmpty |-> isEmpty]
TransportFailure == [reached |-> FALSE, status |-> 0, isEmpty |-> TRUE]
Ok(outcome) == outcome.reached /\ outcome.status \in 200..299
RemoteOutcomes(operation) ==
    {Response(200, FALSE), Response(400, TRUE), Response(401, TRUE),
     Response(500, TRUE), TransportFailure}
    \cup (IF operation = "fetchCharacterEntriesByVisualNovelId"
          THEN {Response(200, TRUE)} ELSE {})

\* ---- strings as character sequences ----

Whitespace == {" "}
Digits == {"0", "1"}
ToLowerCaseCharacter(character) ==
    CASE character = "V" -> "v"
      [] character = "U" -> "u"
      [] OTHER -> character
ToLowerCase(text) == [index \in 1..Len(text) |-> ToLowerCaseCharacter(text[index])]

RECURSIVE TrimStart(_)
TrimStart(text) ==
    IF text # <<>> /\ Head(text) \in Whitespace THEN TrimStart(Tail(text)) ELSE text

RECURSIVE TrimEnd(_)
TrimEnd(text) ==
    IF text # <<>> /\ text[Len(text)] \in Whitespace
    THEN TrimEnd(SubSeq(text, 1, Len(text) - 1)) ELSE text

Trim(text) == TrimEnd(TrimStart(text))

StartsWith(text, character) == text # <<>> /\ Head(text) = character

\* the same without trimming
normalizeVisualNovelIdentifierWithoutTrim(visualNovelIdentifier) ==
    LET normalizedRawIdentifier == ToLowerCase(visualNovelIdentifier)
    IN  IF StartsWith(normalizedRawIdentifier, "v")
        THEN normalizedRawIdentifier
        ELSE <<"v">> \o normalizedRawIdentifier

normalizeVisualNovelIdentifier(visualNovelIdentifier) ==
    LET normalizedRawIdentifier == ToLowerCase(Trim(visualNovelIdentifier))
    IN  IF StartsWith(normalizedRawIdentifier, "v")
        THEN normalizedRawIdentifier
        ELSE <<"v">> \o normalizedRawIdentifier

\* Number(text) is finite and > 0, for text over the letters, digits and blanks
\* of the model: Number ignores surrounding blanks, "" is 0, a letter gives NaN
IsPositiveNumber(text) ==
    LET digits == Trim(text)
    IN  /\ digits # <<>>
        /\ \A index \in 1..Len(digits) : digits[index] \in Digits
        /\ \E index \in 1..Len(digits) : digits[index] # "0"

\* ---- ResponseCache ----

\* a read that does not look at the expiry time
readFromCacheIgnoringExpiry(cacheStore, cacheKey) ==
    IF cacheKey \notin DOMAIN cacheStore
    THEN [store |-> cacheStore, payload |-> NullPayload]
    ELSE [store |-> cacheStore, payload |-> cacheStore[cacheKey].payload]

readFromCache(cacheStore, cacheKey) ==
    IF cacheKey \notin DOMAIN cacheStore
    THEN [store |-> cacheStore, payload |-> NullPayload]
    ELSE IF now > cacheStore[cacheKey].expiresAt
         THEN [store |-> [key \in DOMAIN cacheStore \ {cacheKey} |-> cacheStore[key]],
               payload |-> NullPayload]
         ELSE [store |-> cacheStore, payload |-> cacheStore[cacheKey].payload]

\* a write whose entry has no lifetime
writeToCacheWithoutLifetime(cacheStore, cacheKey, payload) ==
    [key \in DOMAIN cacheStore \cup {cacheKey} |->
        IF key = cacheKey
        THEN [expiresAt |-> now, payload |-> payload]
        ELSE cacheStore[key]]

writeToCache(cacheStore, cacheKey, payload) ==
    [key \in DOMAIN cacheStore \cup {cacheKey} |->
        IF key = cacheKey
        THEN [expiresAt |-> now + CACHE_TIME_TO_LIVE_MILLISECONDS, payload |-> payload]
        ELSE cacheStore[key]]

\* a write that leaves the store as it is
ClearNothing(cacheStore) == cacheStore

\* Map.prototype.clear
Clear(cacheStore) == EmptyStore

\* ---- request shapes and cache keys ----

QueryParameterChoices ==
    {[queryFilters |-> JsonValue(<<"search", "=", "a">>),
      requestedFields |-> JsonValue(<<"id, title, rating">>),
      maxResults |-> JsonValue(<<"20">>),
      pageNumber |-> JsonValue(<<pageNumber>>),
      sortField |-> Undefined,
      reverseSort |-> Undefined] : pageNumber \in {"1", "2"}}

ListRequestPayload(parameters) ==
    << <<"filters", parameters.queryFilters>>,
       <<"fields", parameters.requestedFields>>,
       <<"results", parameters.maxResults>>,
       <<"page", parameters.pageNumber>>,
       <<"sort", parameters.sortField>>,
       <<"reverse", parameters.reverseSort>> >>

UserListReadChoices ==
    {[authenticationToken |-> <<"t", "1">>, userIdentifier |-> <<"U", "1">>],
     [authenticationToken |-> <<"t", "0">>, userIdentifier |-> <<"0">>]}

normalizedUserIdentifier(userIdentifier) ==
    IF StartsWith(ToLowerCase(userIdentifier), "u")
    THEN ToLowerCase(userIdentifier)
    ELSE <<"u">> \o userIdentifier

UserListCacheKey(read) ==
    JsonStringify(<< <<"cacheVersion", JsonValue(<<"3">>)>>,
                     <<"token", JsonValue(read.authenticationToken)>>,
                     <<"user", JsonValue(normalizedUserIdentifier(read.userIdentifier))>>,
                     <<"fields", JsonValue(<<"id, labels.id, labels.label, vn.id">>)>>,
                     <<"results", JsonValue(<<"50">>)>>,
                     <<"page", JsonValue(<<"1">>)>> >>)

VisualNovelIdentifierChoices == {<<"1">>, <<"v", "x">>, <<" ">>}
WriteIdentifierChoices == {<<"1">>, <<" ">>}
LookupIdentifierChoices == {<<"1">>, <<"v", "x">>}

\* the request shapes fetchCharacterEntriesByVisualNovelId tries, in order:
\* two field candidates on /vn, then three or six filter candidates on /character
CharacterCandidateCount(visualNovelIdentifier) ==
    2 + (IF IsPositiveNumber(Tail(normalizeVisualNovelIdentifier(visualNovelIdentifier)))
         THEN 6 ELSE 3)

CharacterCacheKey(visualNovelIdentifier, candidate) ==
    LET normalizedVisualNovelIdentifier ==
            normalizeVisualNovelIdentifier(visualNovelIdentifier)
    IN  IF candidate <= 2
        THEN JsonStringify(
               << <<"characterSource", JsonValue(<<"vn">>)>>,
                  <<"filters", JsonValue(<<"id", "=">> \o normalizedVisualNovelIdentifier)>>,
                  <<"fields", JsonValue(<<IF candidate = 1 THEN "characters" ELSE "chars">>)>>,
                  <<"results", JsonValue(<<"1">>)>> >>)
        ELSE JsonStringify(
               << <<"fields", JsonValue(<<"id, name, original, image">>)>>,
                  <<"results", JsonValue(<<"100">>)>>,
                  <<"sort", JsonValue(<<"name">>)>>,
                  <<"reverse", JsonValue(<<"false">>)>>,
                  <<"filters",
                    JsonValue(
                      CASE candidate = 3 -> <<"vn", "=", "id", "=">> \o normalizedVisualNovelIdentifier
                        [] candidate = 4 -> <<"vn", "=">> \o normalizedVisualNovelIdentifier
                        [] candidate = 5 -> <<"vns", "=", "id", "=">> \o normalizedVisualNovelIdentifier
                        [] candidate = 6 -> <<"vn", "=", "number">> \o Tail(normalizedVisualNovelIdentifier)
                        [] candidate = 7 -> <<"vn", "=", "id", "=", "number">> \o Tail(normalizedVisualNovelIdentifier)
                        [] OTHER -> <<"vns", "=", "id", "=", "number">> \o Tail(normalizedVisualNovelIdentifier))>> >>)

\* ---- calls ----

WriteOperations == {"addVisualNovelToAuthenticatedUserList",
                    "updateAuthenticatedUserVisualNovelStatusLabel",
                    "removeVisualNovelFromAuthenticatedUserList"}
UnconditionalWriteOperations == {"updateAuthenticatedUserVisualNovelStatusLabel",
                                 "removeVisualNovelFromAuthenticatedUserList"}

NoKey == <<>>
NoEntry == [present |-> FALSE, expiresAt |-> 0]
EntryOf(cacheStore, cacheKey) ==
    IF cacheKey \in DOMAIN cacheStore
    THEN [present |-> TRUE, expiresAt |-> cacheStore[cacheKey].expiresAt]
    ELSE NoEntry

\* a call suspended at "await fetch(...)": candidate is the request shape it
\* has sent, outcomes what the remote has answered to it so far, overtaken
\* whether a personal-list write has completed since it was sent
Call(operation, argument, cacheKey, candidate, requests, retries, outcomes) ==
    [operation |-> operation, argument |-> argument, cacheKey |-> cacheKey,
     candidate |-> candidate, requests |-> requests, retries |-> retries,
     outcomes |-> outcomes, overtaken |-> FALSE]

\* the calls still suspended when a personal-list write completes
Overtaken(suspended) ==
    [position \in 1..Len(suspended) |-> [suspended[position] EXCEPT !.overtaken = TRUE]]

\* what the remote can answer to a personal-list read: the list as it is (1)
\* or, to a read that a write has overtaken, the list as it was before (0)
UserListResponseVersions(call) ==
    IF call.overtaken THEN {0, 1} ELSE {1}

NoRead == [key |-> NoKey, entry |-> NoEntry, result |-> NullPayload]
CacheRead(cacheStore, cacheKey) ==
    [key |-> cacheKey, entry |-> EntryOf(cacheStore, cacheKey),
     result |-> readFromCache(cacheStore, cacheKey).payload]

\* what the step did: the call it belongs to, how the call stands (requested,
\* retried, returned, threw), what it returned and the cache read it made
Observation(call, phase, event, payload, read, cleared) ==
    [operation |-> call.operation, argument |-> call.argument,
     cacheKey |-> call.cacheKey, candidate |-> call.candidate,
     requests |-> call.requests, retries |-> call.retries,
     outcomes |-> call.outcomes, phase |-> phase, event |-> event,
     payload |-> payload, read |-> read, cleared |-> cleared]

InitialObservation ==
    Observation(Call("none", <<>>, NoKey, 0, 0, 0, <<>>), "none", "init",
                NullPayload, NoRead, 0)

GatewayStep(listStore, userListStore, characterStore, suspended, log, observation, limits) ==
    /\ Len(suspended) <= limits.calls
    /\ listQueryCache' = listStore
    /\ userListQueryCache' = userListStore
    /\ characterQueryCache' = characterStore
    /\ calls' = suspended
    /\ responseLog' = log
    /\ lastStep' = observation
    /\ callsStarted' = callsStarted + (IF observation.phase = "call" THEN 1 ELSE 0)
    /\ callsStarted' <= limits.started
    /\ UNCHANGED <<now, clockAdvances, listVars, detachedVars>>

Replace(sequence, position, element) == [sequence EXCEPT ![position] = element]
Settled(call, outcome) == [call EXCEPT !.outcomes = Append(@, outcome)]
Resent(call) == [call EXCEPT !.candidate = @ + 1, !.requests = @ + 1, !.retries = @ + 1]

\* a fallback that resends after every rejection
CompatibilityRetryAfterEveryRejection(call, outcome) ==
    ~Ok(outcome) /\ outcome.status = 400

\* a fallback that resends after any failure status
CompatibilityRetryAfterAnyFailure(call, outcome) ==
    call.candidate = 1 /\ ~Ok(outcome)

\* `if (!networkResponse.ok && networkResponse.status === 400)` after the first
\* request of the personal-list read and of the add-to-list write
CompatibilityRetry(call, outcome) ==
    call.candidate = 1 /\ ~Ok(outcome) /\ outcome.status = 400

\* ---- fetchVisualNovelEntries ----

fetchVisualNovelEntries(parameters, limits) ==
    \E cacheKey \in {JsonStringify(ListRequestPayload(parameters))} :
    \E cached \in {readFromCache(listQueryCache, cacheKey)} :
    \E read \in {CacheRead(listQueryCache, cacheKey)} :
    \E call \in {Call("fetchVisualNovelEntries", parameters, cacheKey, 1, 0, 0, <<>>)} :
        IF ~cached.payload.isNull
        THEN GatewayStep(cached.store, userListQueryCache, characterQueryCache, calls,
                         responseLog,
                         Observation(call, "call", "returned", cached.payload, read, 0),
                         limits)
        ELSE \E sent \in {[call EXCEPT !.requests = 1]} :
             GatewayStep(cached.store, userListQueryCache, characterQueryCache,
                         Append(calls, sent), responseLog,
                         Observation(sent, "call", "requested", NullPayload, read, 0),
                         limits)

fetchVisualNovelEntriesContinuation(position, outcome, limits) ==
    \E call \in {Settled(calls[position], outcome)} :
    \E payload \in {ResponsePayload(version, FALSE) :
                      version \in PayloadVersions(calls[position].operation)} :
        IF ~Ok(outcome)
        THEN GatewayStep(listQueryCache, userListQueryCache, characterQueryCache,
                         RemoveAt(calls, position), responseLog,
                         Observation(call, "response", "threw", NullPayload, NoRead, 0),
                         limits)
        ELSE GatewayStep(writeToCache(listQueryCache, call.cacheKey, payload),
                         userListQueryCache, characterQueryCache,
                         RemoveAt(calls, position),
                         [key \in DOMAIN responseLog \cup {call.cacheKey} |->
                             IF key = call.cacheKey
                             THEN [at |-> now, payload |-> payload]
                             ELSE responseLog[key]],
                         Observation(call, "response", "returned", payload, NoRead, 0),
                         limits)

\* ---- fetchAuthenticatedUserVisualNovelList ----

fetchAuthenticatedUserVisualNovelList(read, limits) ==
    \E cacheKey \in {UserListCacheKey(read)} :
    \E cached \in {readFromCache(userListQueryCache, cacheKey)} :
    \E cacheRead \in {CacheRead(userListQueryCache, cacheKey)} :
    \E call \in {Call("fetchAuthenticatedUserVisualNovelList", read, cacheKey, 1, 0, 0, <<>>)} :
        IF ~cached.payload.isNull
        THEN GatewayStep(listQueryCache, cached.store, characterQueryCache, calls,
                         responseLog,
                         Observation(call, "call", "returned", cached.payload, cacheRead, 0),
                         limits)
        ELSE \E sent \in {[call EXCEPT !.requests = 1]} :
             GatewayStep(listQueryCache, cached.store, characterQueryCache,
                         Append(calls, sent), responseLog,
                         Observation(sent, "call", "requested", NullPayload, cacheRead, 0),
                         limits)

fetchAuthenticatedUserVisualNovelListContinuation(position, outcome, limits) ==
    \E call \in {Settled(calls[position], outcome)} :
    \E payload \in {ResponsePayload(version, FALSE) :
                      version \in UserListResponseVersions(calls[position])} :
        IF ~outcome.reached
        THEN GatewayStep(listQueryCache, userListQueryCache, characterQueryCache,
                         RemoveAt(calls, position), responseLog,
                         Observation(call, "response", "threw", NullPayload, NoRead, 0),
                         limits)
        ELSE IF CompatibilityRetry(calls[position], outcome)
        THEN \E resent \in {Resent(call)} :
             GatewayStep(listQueryCache, userListQueryCache, characterQueryCache,
                         Replace(calls, position, resent), responseLog,
                         Observation(resent, "response", "retried", NullPayload, NoRead, 0),
                         limits)
        ELSE IF ~Ok(outcome)
        THEN GatewayStep(listQueryCache, userListQueryCache, characterQueryCache,
                         RemoveAt(calls, position), responseLog,
                         Observation(call, "response", "threw", NullPayload, NoRead, 0),
                         limits)
        ELSE GatewayStep(listQueryCache,
                         writeToCache(userListQueryCache, call.cacheKey, payload),
                         characterQueryCache, RemoveAt(calls, position), responseLog,
                         Observation(call, "response", "returned", payload, NoRead, 0),
                         limits)

\* ---- addVisualNovelToAuthenticatedUserList ----

addVisualNovelToAuthenticatedUserList(visualNovelIdentifier, limits) ==
    \E call \in {Call("addVisualNovelToAuthenticatedUserList", visualNovelIdentifier,
                      NoKey, 1, 0, 0, <<>>)} :
        IF Trim(visualNovelIdentifier) = <<>>
        THEN GatewayStep(listQueryCache, userListQueryCache, characterQueryCache, calls,
                         responseLog,
                         Observation(call, "call", "threw", NullPayload, NoRead, 0),
                         limits)
        ELSE \E sent \in {[call EXCEPT !.requests = 1]} :
             GatewayStep(listQueryCache, userListQueryCache, characterQueryCache,
                         Append(calls, sent), responseLog,
                         Observation(sent, "call", "requested", NullPayload, NoRead, 0),
                         limits)

addVisualNovelToAuthenticatedUserListContinuation(position, outcome, limits) ==
    \E call \in {Settled(calls[position], outcome)} :
        IF ~outcome.reached
        THEN GatewayStep(listQueryCache, userListQueryCache, characterQueryCache,
                         RemoveAt(calls, position), responseLog,
                         Observation(call, "response", "threw", NullPayload, NoRead, 0),
                         limits)
        ELSE IF CompatibilityRetry(calls[position], outcome)
        THEN \E resent \in {Resent(call)} :
             GatewayStep(listQueryCache, userListQueryCache, characterQueryCache,
                         Replace(calls, position, resent), responseLog,
                         Observation(resent, "response", "retried", NullPayload, NoRead, 0),
                         limits)
        ELSE IF ~Ok(outcome)
        THEN GatewayStep(listQueryCache, userListQueryCache, characterQueryCache,
                         RemoveAt(calls, position), responseLog,
                         Observation(call, "response", "threw", NullPayload, NoRead, 0),
                         limits)
        ELSE GatewayStep(listQueryCache, Clear(userListQueryCache), characterQueryCache,
                         Overtaken(RemoveAt(calls, position)), responseLog,
                         Observation(call, "response", "returned", NullPayload, NoRead,
                                     Cardinality(DOMAIN userListQueryCache)),
                         limits)

\* ---- updateAuthenticatedUserVisualNovelStatusLabel,
\* ---- removeVisualNovelFromAuthenticatedUserList

UnconditionalWrite(operation, visualNovelIdentifier, limits) ==
    \E sent \in {Call(operation, visualNovelIdentifier, NoKey, 1, 1, 0, <<>>)} :
        GatewayStep(listQueryCache, userListQueryCache, characterQueryCache,
                    Append(calls, sent), responseLog,
                    Observation(sent, "call", "requested", NullPayload, NoRead, 0),
                    limits)

updateAuthenticatedUserVisualNovelStatusLabel(visualNovelIdentifier, limits) ==
    UnconditionalWrite("updateAuthenticatedUserVisualNovelStatusLabel",
                       visualNovelIdentifier, limits)

removeVisualNovelFromAuthenticatedUserList(visualNovelIdentifier, limits) ==
    UnconditionalWrite("removeVisualNovelFromAuthenticatedUserList",
                       visualNovelIdentifier, limits)

UnconditionalWriteContinuation(position, outcome, limits) ==
    \E call \in {Settled(calls[position], outcome)} :
        IF ~Ok(outcome)
        THEN GatewayStep(listQueryCache, userListQueryCache, characterQueryCache,
                         RemoveAt(calls, position), responseLog,
                         Observation(call, "response", "threw", NullPayload, NoRead, 0),
                         limits)
        ELSE GatewayStep(listQueryCache, Clear(userListQueryCache), characterQueryCache,
                         Overtaken(RemoveAt(calls, position)), responseLog,
                         Observation(call, "response", "returned", NullPayload, NoRead,
                                     Cardinality(DOMAIN userListQueryCache)),
                         limits)

\* ---- fetchCharacterEntriesByVisualNovelId ----

\* one iteration of the candidate loops up to its await, or the final return
\* of the empty collection when no candidate is left
CharacterCandidateAttempt(call, phase, suspended, position, characterStore, limits) ==
    IF call.candidate > CharacterCandidateCount(call.argument)
    THEN GatewayStep(listQueryCache, userListQueryCache, characterStore,
                     suspended, responseLog,
                     Observation(call, phase, "returned", EmptyCharacterResponse, NoRead, 0),
                     limits)
    ELSE \E cacheKey \in {CharacterCacheKey(call.argument, call.candidate)} :
         \E cached \in {readFromCache(characterStore, cacheKey)} :
         \E read \in {CacheRead(characterStore, cacheKey)} :
            IF ~cached.payload.isNull
            THEN GatewayStep(listQueryCache, userListQueryCache, cached.store,
                             suspended, responseLog,
                             Observation([call EXCEPT !.cacheKey = cacheKey], phase,
                                         "returned", cached.payload, read, 0),
                             limits)
            ELSE \E sent \in {[call EXCEPT !.cacheKey = cacheKey, !.requests = @ + 1]} :
                 GatewayStep(listQueryCache, userListQueryCache, cached.store,
                             IF position > Len(suspended)
                             THEN Append(suspended, sent)
                             ELSE [index \in 1..(Len(suspended) + 1) |->
                                      IF index < position THEN suspended[index]
                                      ELSE IF index = position THEN sent
                                      ELSE suspended[index - 1]],
                             responseLog,
                             Observation(sent, phase,
                                         IF sent.retries > 0 /\ phase = "response"
                                              /\ ~Ok(call.outcomes[Len(call.outcomes)])
                                         THEN "retried" ELSE "requested",
                                         NullPayload, read, 0),
                             limits)

fetchCharacterEntriesByVisualNovelId(visualNovelIdentifier, limits) ==
    CharacterCandidateAttempt(
        Call("fetchCharacterEntriesByVisualNovelId", visualNovelIdentifier, NoKey,
             1, 0, 0, <<>>),
        "call", calls, Len(calls) + 1, characterQueryCache, limits)

fetchCharacterEntriesByVisualNovelIdContinuation(position, outcome, limits) ==
    \E call \in {Settled(calls[position], outcome)} :
    \E payload \in {ResponsePayload(version, outcome.isEmpty) :
                      version \in PayloadVersions(calls[position].operation)} :
    \E others \in {RemoveAt(calls, position)} :
        IF ~outcome.reached
        THEN GatewayStep(listQueryCache, userListQueryCache, characterQueryCache,
                         others, responseLog,
                         Observation(call, "response", "threw", NullPayload, NoRead, 0),
                         limits)
        ELSE IF ~Ok(outcome)
        THEN IF outcome.status = 400
             THEN CharacterCandidateAttempt(
                      [call EXCEPT !.candidate = @ + 1, !.retries = @ + 1],
                      "response", others, position, characterQueryCache, limits)
             ELSE GatewayStep(listQueryCache, userListQueryCache, characterQueryCache,
                              others, responseLog,
                              Observation(call, "response", "threw", NullPayload, NoRead, 0),
                              limits)
        ELSE IF call.candidate <= 2 /\ payload.isEmpty
        THEN CharacterCandidateAttempt(
                 [call EXCEPT !.candidate = @ + 1],
                 "response", others, position, characterQueryCache, limits)
        ELSE GatewayStep(listQueryCache, userListQueryCache,
                         writeToCache(characterQueryCache, call.cacheKey, payload),
                         others, responseLog,
                         Observation(call, "response", "returned", payload, NoRead, 0),
                         limits)

\* ---- the remote answers, time passes ----

RemoteResponds(position, outcome, limits) ==
    CASE calls[position].operation = "fetchVisualNovelEntries" ->
            fetchVisualNovelEntriesContinuation(position, outcome, limits)
      [] calls[position].operation = "fetchAuthenticatedUserVisualNovelList" ->
            fetchAuthenticatedUserVisualNovelListContinuation(position, outcome, limits)
      [] calls[position].operation = "addVisualNovelToAuthenticatedUserList" ->
            addVisualNovelToAuthenticatedUserListContinuation(position, outcome, limits)
      [] calls[position].operation \in UnconditionalWriteOperations ->
            UnconditionalWriteContinuation(position, outcome, limits)
      [] OTHER ->
            fetchCharacterEntriesByVisualNovelIdContinuation(position, outcome, limits)

AdvanceClock(milliseconds, limits) ==
    /\ clockAdvances < limits.clock
    /\ now' = now + milliseconds
    /\ clockAdvances' = clockAdvances + 1
    /\ lastStep' = Observation(Call("clock", <<>>, NoKey, 0, 0, 0, <<>>), "none", "tick",
                               NullPayload, NoRead, 0)
    /\ UNCHANGED <<listQueryCache, userListQueryCache, characterQueryCache, calls,
                   callsStarted, responseLog, listVars, detachedVars>>

GatewayInit ==
    /\ now = 0
    /\ listQueryCache = EmptyStore
    /\ userListQueryCache = EmptyStore
    /\ characterQueryCache = EmptyStore
    /\ calls = <<>>
    /\ callsStarted = 0
    /\ clockAdvances = 0
    /\ responseLog = EmptyStore
    /\ lastStep = InitialObservation

-----------------------------------------------------------------------------
(* executeAuthenticatedUserListFetch after its paging loop: the raw entries *)
(* are normalised to display records, the identifier-only ones are looked  *)
(* up in batches, and the records found replace their placeholders.        *)

\* entries of the raw personal list
MaxUserListLength == 2
\* the chunk size handed to chunkArray
HydrationChunkSize == 100

\* JavaScript values found under "id" and "vn" of a raw entry.  JSON carries
\* no NaN or Infinity, so every number is finite.
AbsentValue == [type |-> "undefined", text |-> <<>>, number |-> 0]
TextValue(text) == [type |-> "string", text |-> text, number |-> 0]
NumericValue(number) == [type |-> "number", text |-> <<>>, number |-> number]

Primitive(value) == [type |-> value.type, text |-> value.text, number |-> value.number,
                     id |-> AbsentValue, title |-> <<>>]
EmbeddedRecord(id, title) ==
    [type |-> "object", text |-> <<>>, number |-> 0, id |-> id, title |-> title]

IdentifierValueChoices ==
    {AbsentValue, TextValue(<<"v", "1">>), NumericValue(1)}

VisualNovelPayloadChoices ==
    {Primitive(AbsentValue), Primitive(TextValue(<<"v", "1">>)),
     Primitive(TextValue(<<"V", "1">>)), Primitive(TextValue(<<"1">>)),
     Primitive(TextValue(<<"v", "0">>)), Primitive(NumericValue(1)),
     EmbeddedRecord(TextValue(<<"v", "1">>), <<"E">>),
     EmbeddedRecord(TextValue(<<"v", "1">>), <<>>),
     EmbeddedRecord(AbsentValue, <<"E">>)}

RawEntryChoices ==
    {[vn |-> payload, id |-> identifier] :
        payload \in VisualNovelPayloadChoices, identifier \in IdentifierValueChoices}

RawUserLists == UNION {[1..length -> RawEntryChoices] : length \in 0..MaxUserListLength}

\* the records the remote holds, by identifier
RemoteCatalog == {[id |-> <<"v", "1">>, title |-> <<"H">>]}

DigitCharacter(digit) ==
    <<"0", "1", "2", "3", "4", "5", "6", "7", "8", "9">>[digit + 1]

\* String(number) for a natural number
RECURSIVE DecimalString(_)
DecimalString(number) ==
    IF number < 10 THEN <<DigitCharacter(number)>>
    ELSE DecimalString(number \div 10) \o <<DigitCharacter(number % 10)>>

NullIdentifier == [isNull |-> TRUE, text |-> <<>>]
Identifier(text) == [isNull |-> FALSE, text |-> text]

normalizeEntryIdentifier(rawIdentifier) ==
    IF rawIdentifier.type = "string" /\ Trim(rawIdentifier.text) # <<>>
    THEN Identifier(Trim(rawIdentifier.text))
    ELSE IF rawIdentifier.type = "number"
    THEN Identifier(DecimalString(rawIdentifier.number))
    ELSE NullIdentifier

RECURSIVE chunkArray(_, _)
chunkArray(items, chunkSize) ==
    IF chunkSize <= 0 THEN <<items>>
    ELSE IF items = <<>> THEN <<>>
    ELSE IF Len(items) <= chunkSize THEN <<items>>
    ELSE <<SubSeq(items, 1, chunkSize)>>
         \o chunkArray(SubSeq(items, chunkSize + 1, Len(items)), chunkSize)

\* a display record; "null" stands for the entry the map callback returns null for
NullEntry == [isNull |-> TRUE, id |-> <<>>, title |-> <<>>]
DisplayEntry(id, title) == [isNull |-> FALSE, id |-> id, title |-> title]

\* the callback of accumulatedUserListEntries.map
NormalizeUserListEntry(userListEntry) ==
    LET rawVisualNovelPayload == userListEntry.vn
        normalizedIdentifierFromEntry == normalizeEntryIdentifier(userListEntry.id)
    IN  IF rawVisualNovelPayload.type = "object"
        THEN LET ownIdentifier == normalizeEntryIdentifier(rawVisualNovelPayload.id)
                 normalizedIdentifier ==
                     IF ownIdentifier.isNull THEN normalizedIdentifierFromEntry
                     ELSE ownIdentifier
             IN  IF normalizedIdentifier.isNull THEN NullEntry
                 ELSE DisplayEntry(normalizedIdentifier.text,
                                   rawVisualNovelPayload.title)
        ELSE LET normalizedIdentifierFromVn ==
                     normalizeEntryIdentifier(rawVisualNovelPayload)
             IN  IF ~normalizedIdentifierFromVn.isNull
                 THEN DisplayEntry(normalizedIdentifierFromVn.text, <<>>)
                 ELSE IF /\ ~normalizedIdentifierFromEntry.isNull
                         /\ StartsWith(ToLowerCase(normalizedIdentifierFromEntry.text),
                                       "v")
                 THEN DisplayEntry(normalizedIdentifierFromEntry.text, <<>>)
                 ELSE NullEntry

\* Array.prototype.filter(Boolean)
RECURSIVE FilterBoolean(_)
FilterBoolean(entries) ==
    IF entries = <<>> THEN <<>>
    ELSE IF Head(entries).isNull THEN FilterBoolean(Tail(entries))
    ELSE <<Head(entries)>> \o FilterBoolean(Tail(entries))

NormalizeUserListEntries(accumulatedUserListEntries) ==
    FilterBoolean([index \in 1..Len(accumulatedUserListEntries) |->
                      NormalizeUserListEntry(accumulatedUserListEntries[index])])

IsPlaceholder(userListEntry) == Trim(userListEntry.title) = <<>>

hasPlaceholderEntries(normalizedVisualNovelEntries) ==
    \E index \in 1..Len(normalizedVisualNovelEntries) :
        IsPlaceholder(normalizedVisualNovelEntries[index])

\* id.toLowerCase().startsWith('v') ? id : `v${id}`
PrefixedIdentifier(id) ==
    IF StartsWith(ToLowerCase(id), "v") THEN id ELSE <<"v">> \o id

\* [...new Set(items)]: the first occurrence of every value, in order
RECURSIVE Distinct(_)
Distinct(items) ==
    IF items = <<>> THEN <<>>
    ELSE LET front == Distinct(SubSeq(items, 1, Len(items) - 1))
             last == items[Len(items)]
         IN  IF \E index \in 1..Len(front) : front[index] = last THEN front
             ELSE Append(front, last)

distinctVisualNovelIdentifiers(normalizedVisualNovelEntries) ==
    Distinct([index \in 1..Len(normalizedVisualNovelEntries) |->
                 PrefixedIdentifier(normalizedVisualNovelEntries[index].id)])

\* the records the remote returns for the identifiers of one request: it finds
\* an identifier written as it stores it, and whether it also finds one written
\* in another letter case is the remote's business
HydrationResults(identifierChunk, caseInsensitive) ==
    {hydratedEntry \in RemoteCatalog :
        \E index \in 1..Len(identifierChunk) :
            \/ identifierChunk[index] = hydratedEntry.id
            \/ caseInsensitive /\ ToLowerCase(identifierChunk[index]) = hydratedEntry.id}

\* Map.prototype.set for every result; the map as a set of key-entry pairs
SetHydratedEntries(hydratedEntriesByIdentifier, results) ==
    {pair \in hydratedEntriesByIdentifier :
        \A hydratedEntry \in results : PrefixedIdentifier(hydratedEntry.id) # pair.key}
    \cup {[key |-> PrefixedIdentifier(hydratedEntry.id),
           entry |-> DisplayEntry(hydratedEntry.id, hydratedEntry.title)] :
             hydratedEntry \in results}

\* hydratedEntriesByIdentifier.get(normalizedIdentifier) ?? userListEntry
hydratedAndFallbackEntries(normalizedVisualNovelEntries, hydratedEntriesByIdentifier) ==
    [index \in 1..Len(normalizedVisualNovelEntries) |->
        LET userListEntry == normalizedVisualNovelEntries[index]
            normalizedIdentifier == PrefixedIdentifier(userListEntry.id)
        IN  IF \E pair \in hydratedEntriesByIdentifier : pair.key = normalizedIdentifier
            THEN (CHOOSE pair \in hydratedEntriesByIdentifier :
                      pair.key = normalizedIdentifier).entry
            ELSE userListEntry]

IdleUserListFetch ==
    [phase |-> "idle",
     accumulatedUserListEntries |-> <<>>,
     normalizedVisualNovelEntries |-> <<>>,
     identifierChunks |-> <<>>,
     requests |-> <<>>,
     received |-> {},
     hydratedEntriesByIdentifier |-> {},
     visualNovelDatabaseEntries |-> <<>>]

\* the paging loop has ended with these entries accumulated
PagesFetched(accumulatedUserListEntries) ==
    [IdleUserListFetch EXCEPT
        !.phase = "fetched",
        !.accumulatedUserListEntries = accumulatedUserListEntries]

\* from the end of the paging loop to the first hydration request, or to the
\* display of a list without placeholders
UserListPagesFetched ==
    /\ userListFetch.phase = "fetched"
    /\ \E normalized \in
            {NormalizeUserListEntries(userListFetch.accumulatedUserListEntries)} :
         IF hasPlaceholderEntries(normalized)
         THEN \E chunks \in
                  {chunkArray(distinctVisualNovelIdentifiers(normalized),
                              HydrationChunkSize)} :
                userListFetch' =
                    [userListFetch EXCEPT
                        !.phase = "hydrating",
                        !.normalizedVisualNovelEntries = normalized,
                        !.identifierChunks = chunks,
                        !.requests = <<chunks[1]>>]
         ELSE userListFetch' =
                  [userListFetch EXCEPT
                      !.phase = "displayed",
                      !.normalizedVisualNovelEntries = normalized,
                      !.visualNovelDatabaseEntries =
                          sortVisualNovelEntries(normalized, appliedSort)]
    /\ UNCHANGED <<listVars, gatewayVars, paging, evaluation, authentication, viewVars>>

\* the answer to the hydration request awaited: the next request, or the merge
HydrationResponds(caseInsensitive) ==
    /\ userListFetch.phase = "hydrating"
    /\ \E results \in
            {HydrationResults(userListFetch.requests[Len(userListFetch.requests)],
                              caseInsensitive)} :
       \E hydrated \in
            {SetHydratedEntries(userListFetch.hydratedEntriesByIdentifier, results)} :
         IF Len(userListFetch.requests) < Len(userListFetch.identifierChunks)
         THEN userListFetch' =
                  [userListFetch EXCEPT
                      !.received = @ \cup results,
                      !.hydratedEntriesByIdentifier = hydrated,
                      !.requests = Append(@,
                          userListFetch.identifierChunks[Len(@) + 1])]
         ELSE userListFetch' =
                  [userListFetch EXCEPT
                      !.phase = "displayed",
                      !.received = @ \cup results,
                      !.hydratedEntriesByIdentifier = hydrated,
                      !.visualNovelDatabaseEntries =
                          sortVisualNovelEntries(
                              hydratedAndFallbackEntries(
                                  userListFetch.normalizedVisualNovelEntries, hydrated),
                              appliedSort)]
    /\ UNCHANGED <<listVars, gatewayVars, paging, evaluation, authentication, viewVars>>

\* a hydration request rejects: the catch block, nothing displayed
HydrationRejects ==
    /\ userListFetch.phase = "hydrating"
    /\ userListFetch' = [userListFetch EXCEPT !.phase = "failed"]
    /\ UNCHANGED <<listVars, gatewayVars, paging, evaluation, authentication, viewVars>>

\* no function has been called
NoEvaluation == [function |-> "none", applied |-> FALSE, input |-> <<>>, result |-> <<>>]

-----------------------------------------------------------------------------
(* Paged reads: the membership-set loop of the api client, the full-list loop
   of executeAuthenticatedUserListFetch, and the search list's next pages *)

MAXIMUM_USER_LIST_PAGES == 40

\* pages of the search list the model lets the user scroll through
MaxSearchPages == 3
\* entries the remote account or catalogue holds
MaxRemoteEntries == 2

PagedOperations == {"identifierSet", "fullList", "searchList"}

\* the values the `more` member of a response body can have
MoreValues == {"true", "false", "undefined"}

\* ToBoolean of such a value, as `while (x && ...)`, `!x` and Boolean(x) apply it
TruthyUnlessFalse(value) == value # "false"
Truthy(value) == value = "true"

\* a value that is an array of items, or is not an array (a missing member)
NotAnArray == [isArray |-> FALSE, items |-> <<>>]
ArrayOf(items) == [isArray |-> TRUE, items |-> items]

RemoteIdentifierChoices ==
    {TextValue(<<"V", "1">>), TextValue(<<" ">>), NumericValue(2)}

PageResponseChoices ==
    {[results |-> results, more |-> more] :
        results \in {NotAnArray, ArrayOf(<<>>)}
                    \cup {ArrayOf(<<id>>) : id \in RemoteIdentifierChoices},
        more \in MoreValues}

\* the identifier the membership set stores for an entry's id, if any
MembershipIdentifiers(rawIdentifier) ==
    IF rawIdentifier.type = "string" /\ Trim(rawIdentifier.text) # <<>>
    THEN IF StartsWith(ToLowerCase(rawIdentifier.text), "v")
         THEN {ToLowerCase(rawIdentifier.text)}
         ELSE {<<"v">> \o ToLowerCase(rawIdentifier.text)}
    ELSE IF rawIdentifier.type = "number"
    THEN {<<"v">> \o DecimalString(rawIdentifier.number)}
    ELSE {}

IdlePaging ==
    [operation |-> "none", phase |-> "idle", activePageNumber |-> 1,
     hasMorePages |-> "true", requestedPages |-> <<>>, answers |-> <<>>,
     visualNovelIdentifierSet |-> {}, accumulatedEntries |-> <<>>]

StartPaging(operation) ==
    [IdlePaging EXCEPT !.operation = operation, !.phase = "loop"]

\* the loop condition without its page limit
LoopConditionWithoutLimit(loop) ==
    IF loop.operation = "searchList"
    THEN /\ loop.activePageNumber = 1 \/ Truthy(loop.hasMorePages)
         /\ Len(loop.requestedPages) < MaxSearchPages
    ELSE Truthy(loop.hasMorePages)

\* `hasMorePages && activePageNumber <= MAXIMUM_USER_LIST_PAGES` of the two
\* loops; for the search list, the first page of a replace fetch and then
\* loadNextPage's `!hasAdditionalResults` guard
LoopCondition(loop) ==
    IF loop.operation = "searchList"
    THEN /\ loop.activePageNumber = 1 \/ Truthy(loop.hasMorePages)
         /\ Len(loop.requestedPages) < MaxSearchPages
    ELSE /\ Truthy(loop.hasMorePages)
         /\ loop.activePageNumber <= MAXIMUM_USER_LIST_PAGES

\* the value the loop keeps of the response's `more`
StoredMore(operation, more) ==
    IF operation = "identifierSet"
    THEN IF Truthy(more) THEN "true" ELSE "false"
    ELSE more

\* the loop body, or the search list's success path, on a response
AfterPageResponse(loop, response) ==
    LET answered == [loop EXCEPT !.answers = Append(@, response.more)]
        advanced == [answered EXCEPT
                        !.phase = "loop",
                        !.hasMorePages = StoredMore(loop.operation, response.more),
                        !.activePageNumber = @ + 1]
    IN  CASE loop.operation = "identifierSet" ->
               [advanced EXCEPT
                   !.visualNovelIdentifierSet =
                       @ \cup UNION {MembershipIdentifiers(response.results.items[index]) :
                                        index \in 1..Len(response.results.items)}]
          [] loop.operation = "fullList" ->
               IF response.results.isArray
               THEN [advanced EXCEPT
                        !.accumulatedEntries = @ \o response.results.items]
               ELSE [answered EXCEPT !.phase = "failed"]
          [] OTHER ->
               IF ~response.results.isArray
               THEN [answered EXCEPT !.phase = "crashed"]
               ELSE IF loop.activePageNumber = 1
               THEN [advanced EXCEPT !.accumulatedEntries = response.results.items]
               ELSE [advanced EXCEPT
                        !.accumulatedEntries = @ \o response.results.items]

\* the loop asks for its next page
PageRequested ==
    /\ paging.phase = "loop"
    /\ LoopCondition(paging)
    /\ paging' = [paging EXCEPT
                     !.phase = "awaiting",
                     !.requestedPages = Append(@, paging.activePageNumber)]
    /\ UNCHANGED <<listVars, gatewayVars, userListFetch, evaluation, authentication,
                   viewVars>>

\* the loop ends and the function goes on with what it accumulated
PagingLoopExits ==
    /\ paging.phase = "loop"
    /\ paging.operation # "searchList"
    /\ ~LoopCondition(paging)
    /\ paging' = [paging EXCEPT !.phase = "returned"]
    /\ UNCHANGED <<listVars, gatewayVars, userListFetch, evaluation, authentication,
                   viewVars>>

PageResponds(response) ==
    /\ paging.phase = "awaiting"
    /\ Len(paging.accumulatedEntries) + Cardinality(paging.visualNovelIdentifierSet)
         + Len(response.results.items) <= MaxRemoteEntries
    /\ paging' = AfterPageResponse(paging, response)
    /\ UNCHANGED <<listVars, gatewayVars, userListFetch, evaluation, authentication,
                   viewVars>>

\* the request fails: the two loops throw; the search list shows the error and
\* keeps its page and hasAdditionalResults
PageRejects ==
    /\ paging.phase = "awaiting"
    /\ paging' = [paging EXCEPT
                     !.phase = IF paging.operation = "searchList"
                               THEN "loop" ELSE "failed"]
    /\ UNCHANGED <<listVars, gatewayVars, userListFetch, evaluation, authentication,
                   viewVars>>

-----------------------------------------------------------------------------
(* Functions without side effects, each called once on arguments drawn from a
   bounded set: evaluation holds the arguments and then the result *)

FunctionCall(function, input) ==
    [applied |-> FALSE, function |-> function, input |-> input, result |-> <<>>]

Called(function) == ~evaluation.applied /\ evaluation.function = function

Returned(function) == evaluation.applied /\ evaluation.function = function

\* the call returns
Return(result) ==
    /\ evaluation' = [evaluation EXCEPT !.applied = TRUE, !.result = result]
    /\ UNCHANGED <<listVars, gatewayVars, userListFetch, paging, authentication,
                   viewVars>>

\* arrays of at most maximumLength items
ArraysOf(items, maximumLength) ==
    UNION {[1..length -> items] : length \in 0..maximumLength}

\* ---- deriveStatusLabelFromUnknownLabels ----

\* labels of one list entry in the model
MaxLabels == 3

STATUS_LABEL_IDENTIFIERS == <<1, 2, 3, 4, 5, 6>>

NoStatusLabel == [isNull |-> TRUE, id |-> 0]
StatusLabel(id) == [isNull |-> FALSE, id |-> id]

DecimalDigits == {"0", "1", "2", "3", "4", "5", "6", "7", "8", "9"}

DigitValue(character) ==
    CHOOSE digit \in 0..9 : DigitCharacter(digit) = character

\* Number(text.replace(/[^\d]/g, '')): the number the digits of text spell,
\* 0 when it has none
RECURSIVE NumberOfDigits(_)
NumberOfDigits(text) ==
    IF text = <<>> THEN 0
    ELSE LET front == NumberOfDigits(SubSeq(text, 1, Len(text) - 1))
             last == text[Len(text)]
         IN  IF last \in DecimalDigits THEN 10 * front + DigitValue(last) ELSE front

\* the callback of rawLabels.map: the identifier of a label, or null
LabelIdentifier(rawLabel) ==
    CASE rawLabel.type = "number" -> StatusLabel(rawLabel.number)
      [] rawLabel.type = "string" -> StatusLabel(NumberOfDigits(rawLabel.text))
      [] rawLabel.type = "object" /\ rawLabel.id.type = "number" ->
             StatusLabel(rawLabel.id.number)
      [] rawLabel.type = "object" /\ rawLabel.id.type = "string" ->
             StatusLabel(NumberOfDigits(rawLabel.id.text))
      [] OTHER -> NoStatusLabel

\* array.find(predicate) ?? null
RECURSIVE FindStatusLabel(_, _)
FindStatusLabel(candidates, normalizedLabels) ==
    IF candidates = <<>> THEN NoStatusLabel
    ELSE IF \E index \in 1..Len(normalizedLabels) :
                normalizedLabels[index] = Head(candidates)
    THEN StatusLabel(Head(candidates))
    ELSE FindStatusLabel(Tail(candidates), normalizedLabels)

\* the status of the first label of the array that is a status label
deriveStatusLabelOfFirstLabel(rawLabels) ==
    IF ~rawLabels.isArray THEN NoStatusLabel
    ELSE LET identified == SelectSeq([index \in 1..Len(rawLabels.items) |->
                                          LabelIdentifier(rawLabels.items[index])],
                                     LAMBDA label : ~label.isNull /\ label.id \in 1..6)
         IN  IF identified = <<>> THEN NoStatusLabel ELSE Head(identified)

deriveStatusLabelFromUnknownLabels(rawLabels) ==
    IF ~rawLabels.isArray THEN NoStatusLabel
    ELSE LET identified == SelectSeq([index \in 1..Len(rawLabels.items) |->
                                          LabelIdentifier(rawLabels.items[index])],
                                     LAMBDA label : ~label.isNull)
             normalizedLabels == [index \in 1..Len(identified) |-> identified[index].id]
         IN  FindStatusLabel(STATUS_LABEL_IDENTIFIERS, normalizedLabels)

RawLabelChoices ==
    {Primitive(NumericValue(2)), Primitive(NumericValue(4)), Primitive(NumericValue(7)),
     Primitive(NumericValue(0)), Primitive(TextValue(<<"l", "6">>)),
     Primitive(TextValue(<<>>)), Primitive(AbsentValue),
     EmbeddedRecord(NumericValue(1), <<>>), EmbeddedRecord(TextValue(<<"5">>), <<>>)}

StatusDerivationCalls ==
    {FunctionCall("deriveStatusLabelFromUnknownLabels", rawLabels) :
        rawLabels \in {NotAnArray} \cup
                      {ArrayOf(labels) : labels \in ArraysOf(RawLabelChoices, MaxLabels)}}

StatusLabelDerived ==
    /\ Called("deriveStatusLabelFromUnknownLabels")
    /\ Return(deriveStatusLabelFromUnknownLabels(evaluation.input))

\* ---- updateAuthenticatedUserVisualNovelStatusLabel: the request body, and
\* ---- the labels of the entry on the remote side ----

\* status writes on one entry in the model
MaxStatusWrites == 3

\* array.filter((item) => item !== excluded)
FilterNot(array, excluded) == SelectSeq(array, LAMBDA item : item # excluded)

\* a body that sets the target without unsetting the other status labels
StatusLabelRequestPayloadWithoutUnset(statusLabelIdentifier) ==
    [labels_unset |-> <<>>, labels_set |-> <<statusLabelIdentifier>>]

StatusLabelRequestPayload(statusLabelIdentifier) ==
    [labels_unset |-> FilterNot(STATUS_LABEL_IDENTIFIERS, statusLabelIdentifier),
     labels_set |-> <<statusLabelIdentifier>>]

Elements(array) == {array[index] : index \in 1..Len(array)}

\* PATCH /ulist/<id> on the remote side: the labels of labels_unset are taken
\* off the entry, those of labels_set are put on it
RemoteLabelsAfterPatch(labels, requestPayload) ==
    (labels \ Elements(requestPayload.labels_unset))
        \cup Elements(requestPayload.labels_set)

\* the labels an entry can carry before the first write: status labels, the
\* "voted" label 7 and a label of the user's own
RemoteLabelChoices == {1, 2, 5, 7, 10}

NoStatusWrite == [labels_unset |-> <<>>, labels_set |-> <<>>]

\* the entry's labels, the writes made, the body of the last one, and the
\* target of the last one that succeeded (0: none)
RemoteEntry(labels) ==
    [labels |-> labels, writes |-> 0, requestPayload |-> NoStatusWrite,
     statusLabelIdentifier |-> 0, succeeded |-> FALSE, lastSucceeded |-> 0]

StatusWriteCalls ==
    {[FunctionCall("updateAuthenticatedUserVisualNovelStatusLabel", labels)
         EXCEPT !.result = RemoteEntry(labels)] :
        labels \in SUBSET RemoteLabelChoices}

\* one call with its response: the body is sent; the remote applies it and
\* answers 2xx, or rejects it and the function throws
StatusLabelWritten(statusLabelIdentifier, succeeded) ==
    /\ evaluation.function = "updateAuthenticatedUserVisualNovelStatusLabel"
    /\ evaluation.result.writes < MaxStatusWrites
    /\ \E requestPayload \in {StatusLabelRequestPayload(statusLabelIdentifier)} :
         Return([labels |-> IF succeeded
                            THEN RemoteLabelsAfterPatch(evaluation.result.labels,
                                                        requestPayload)
                            ELSE evaluation.result.labels,
                 writes |-> evaluation.result.writes + 1,
                 requestPayload |-> requestPayload,
                 statusLabelIdentifier |-> statusLabelIdentifier,
                 succeeded |-> succeeded,
                 lastSucceeded |-> IF succeeded THEN statusLabelIdentifier
                                   ELSE evaluation.result.lastSucceeded])

-----------------------------------------------------------------------------
(* RootApplication: applyAuthenticationToken and the handlers that call it *)

\* validations started in one run of the model
MaxValidations == 4

AuthenticationTokens == {"token-a", "token-b"}

NoToken == "null"

NoValidation == [outcome |-> "none", token |-> NoToken]

\* authenticatedSession (the token of the session, or null), the item stored
\* under AUTH_TOKEN_STORAGE_KEY, the calls of applyAuthenticationToken
\* suspended at their await, and the outcome of the call that returned last
SignedOut ==
    [authenticatedSession |-> NoToken, storedToken |-> NoToken, pending |-> <<>>,
     started |-> 0, restored |-> TRUE, lastValidation |-> NoValidation]

\* the application starts with this item in localStorage
Starting(storedToken) ==
    [SignedOut EXCEPT !.storedToken = storedToken, !.restored = FALSE]

\* applyAuthenticationToken up to its await
applyAuthenticationToken(state, authenticationToken) ==
    [state EXCEPT !.pending = Append(@, authenticationToken), !.started = @ + 1]

\* a catch block that leaves the stored item in place
ValidationCaughtKeepingToken(state, authenticationToken) ==
    [state EXCEPT
        !.authenticatedSession = NoToken,
        !.lastValidation = [outcome |-> "failed", token |-> authenticationToken]]

\* the try block after the await
ValidationSucceeded(state, authenticationToken) ==
    [state EXCEPT
        !.authenticatedSession = authenticationToken,
        !.storedToken = authenticationToken,
        !.lastValidation = [outcome |-> "succeeded", token |-> authenticationToken]]

\* the catch block
ValidationCaught(state, authenticationToken) ==
    [state EXCEPT
        !.authenticatedSession = NoToken,
        !.storedToken = NoToken,
        !.lastValidation = [outcome |-> "failed", token |-> authenticationToken]]

AuthenticationStep(state) ==
    /\ authentication' = state
    /\ UNCHANGED <<listVars, gatewayVars, userListFetch, paging, evaluation, viewVars>>

\* the boot-time effect: the stored token, when there is one, is validated
RestoreEffect ==
    /\ ~authentication.restored
    /\ AuthenticationStep(
           IF authentication.storedToken # NoToken
           THEN applyAuthenticationToken([authentication EXCEPT !.restored = TRUE],
                                         authentication.storedToken)
           ELSE [authentication EXCEPT !.restored = TRUE])

\* handleAuthenticationFormSubmit and handleOnboardingTokenSubmit with a
\* token typed in
handleAuthenticationFormSubmit(tokenInputValue) ==
    /\ authentication.restored
    /\ authentication.started < MaxValidations
    /\ AuthenticationStep(applyAuthenticationToken(authentication, tokenInputValue))

\* fetchAuthenticationInfoByToken returns or throws
ValidationResolves(position, succeeded) ==
    /\ position \in 1..Len(authentication.pending)
    /\ \E state \in {[authentication EXCEPT !.pending = RemoveAt(@, position)]} :
         AuthenticationStep(
             IF succeeded
             THEN ValidationSucceeded(state, authentication.pending[position])
             ELSE ValidationCaught(state, authentication.pending[position]))

ConfirmLogout ==
    /\ authentication.restored
    /\ authentication.authenticatedSession # NoToken
    /\ AuthenticationStep(
           [authentication EXCEPT
               !.authenticatedSession = NoToken, !.storedToken = NoToken,
               !.lastValidation = NoValidation])

\* ---- the two normalizers of visual novel identifiers ----

\* characters of an identifier text in the model
MaxIdentifierLength == 4

IdentifierCharacters == {"v", "V", "1", " "}

IdentifierTexts == ArraysOf(IdentifierCharacters, MaxIdentifierLength)

\* the component's normalizeVisualNovelIdentifier(rawIdentifier: unknown)
normalizeRawVisualNovelIdentifier(rawIdentifier) ==
    LET normalizedIdentifier == normalizeEntryIdentifier(rawIdentifier)
    IN  IF normalizedIdentifier.isNull \/ normalizedIdentifier.text = <<>>
        THEN NullIdentifier
        ELSE IF StartsWith(ToLowerCase(normalizedIdentifier.text), "v")
        THEN Identifier(ToLowerCase(normalizedIdentifier.text))
        ELSE Identifier(<<"v">> \o ToLowerCase(normalizedIdentifier.text))

\* a string or null as an argument of type unknown
AsRawValue(identifier) ==
    IF identifier.isNull THEN [AbsentValue EXCEPT !.type = "null"]
    ELSE TextValue(identifier.text)

NormalizerCalls ==
    {FunctionCall("normalizeVisualNovelIdentifier", text) : text \in IdentifierTexts}
    \cup {FunctionCall("VisualNovelList.normalizeVisualNovelIdentifier", rawIdentifier) :
             rawIdentifier \in {TextValue(text) : text \in IdentifierTexts}
                               \cup {NumericValue(1), NumericValue(11), AbsentValue}}

\* the api client's normalizer, and the normalizer applied to its result
VisualNovelIdentifierNormalized ==
    /\ Called("normalizeVisualNovelIdentifier")
    /\ \E normalized \in {normalizeVisualNovelIdentifier(evaluation.input)} :
         Return([normalized |-> normalized,
                 renormalized |-> normalizeVisualNovelIdentifier(normalized)])

\* the component's normalizer, and the normalizer applied to its result
RawVisualNovelIdentifierNormalized ==
    /\ Called("VisualNovelList.normalizeVisualNovelIdentifier")
    /\ \E normalized \in {normalizeRawVisualNovelIdentifier(evaluation.input)} :
         Return([normalized |-> normalized,
                 renormalized |->
                     normalizeRawVisualNovelIdentifier(AsRawValue(normalized))])

\* ---- buildFiltersFromQueryDescriptor ----

\* languages selected in the filter panel in the model
MaxLanguages == 2

LanguageCodes == {"en", "ja"}

\* a filter expression: ["name", "operator", value], or ["and" | "or", ...children]
\* a string operand is a code or identifier (text), or what the user typed
\* (characters)
NoOperand == [type |-> "none", text |-> "", characters |-> <<>>, filter |-> <<>>]
StringOperand(text) == [NoOperand EXCEPT !.type = "string", !.text = text]
TypedOperand(characters) ==
    [NoOperand EXCEPT !.type = "string", !.characters = characters]
TrueOperand == [NoOperand EXCEPT !.type = "boolean", !.text = "true"]
FilterOperand(filter) == [NoOperand EXCEPT !.type = "filter", !.filter = <<filter>>]

Leaf(name, operator, value) ==
    [op |-> "leaf", name |-> name, operator |-> operator, value |-> value,
     children |-> <<>>]
Combination(op, children) ==
    [op |-> op, name |-> "", operator |-> "", value |-> NoOperand,
     children |-> children]

\* the descriptors the list builds: a text search, or the selection of a tag
\* or developer (by its non-blank name, with its identifier when the detail
\* view had one), each with the filters of the panel
TermChoices == {<<>>, <<" ">>, <<"a">>, <<" ", "a">>}
SelectedIdentifierChoices == {NoIdentifier, "", "id1"}

FilterStates ==
    [languages : ArraysOf(LanguageCodes, MaxLanguages),
     originalLanguage : {<<>>, <<" ">>, <<"j", "a">>},
     onlyWithScreenshots : BOOLEAN,
     onlyWithDescription : BOOLEAN]

QueryDescriptors ==
    {[kind |-> "text", term |-> term, tagIdentifier |-> NoIdentifier,
      developerIdentifier |-> NoIdentifier, filters |-> filters] :
        term \in TermChoices, filters \in FilterStates}
    \cup {[kind |-> "tag", term |-> <<"a">>, tagIdentifier |-> identifier,
           developerIdentifier |-> NoIdentifier, filters |-> filters] :
        identifier \in SelectedIdentifierChoices, filters \in FilterStates}
    \cup {[kind |-> "developer", term |-> <<"a">>, tagIdentifier |-> NoIdentifier,
           developerIdentifier |-> identifier, filters |-> filters] :
        identifier \in SelectedIdentifierChoices, filters \in FilterStates}

\* ToBoolean of an optional string
IsTruthyString(text) == text # NoIdentifier /\ text # ""

\* the first clause pushed
PrimaryClause(queryDescriptor) ==
    IF queryDescriptor.kind = "tag" /\ IsTruthyString(queryDescriptor.tagIdentifier)
    THEN Leaf("tag", "=", StringOperand(queryDescriptor.tagIdentifier))
    ELSE IF queryDescriptor.kind = "developer"
            /\ IsTruthyString(queryDescriptor.developerIdentifier)
    THEN Leaf("developer", "=",
              FilterOperand(Leaf("id", "=",
                                 StringOperand(queryDescriptor.developerIdentifier))))
    ELSE IF Trim(queryDescriptor.term) # <<>>
    THEN Leaf("search", "=", TypedOperand(queryDescriptor.term))
    ELSE Leaf("id", ">=", StringOperand("v1"))

\* the clauses pushed for the filters of the panel
LanguageClauses(languages) ==
    IF Len(languages) = 1
    THEN <<Leaf("lang", "=", StringOperand(languages[1]))>>
    ELSE IF Len(languages) > 1
    THEN <<Combination("or", [index \in 1..Len(languages) |->
                                 Leaf("lang", "=", StringOperand(languages[index]))])>>
    ELSE <<>>

OptionalClauses(filters) ==
    LanguageClauses(filters.languages)
    \o (IF Trim(filters.originalLanguage) # <<>>
        THEN <<Leaf("olang", "=", TypedOperand(filters.originalLanguage))>> ELSE <<>>)
    \o (IF filters.onlyWithScreenshots
        THEN <<Leaf("has_screenshot", "=", TrueOperand)>> ELSE <<>>)
    \o (IF filters.onlyWithDescription
        THEN <<Leaf("has_description", "=", TrueOperand)>> ELSE <<>>)

\* a builder that wraps a single clause too
buildFiltersAlwaysWrapped(queryDescriptor) ==
    Combination("and", <<PrimaryClause(queryDescriptor)>>
                           \o OptionalClauses(queryDescriptor.filters))

buildFiltersFromQueryDescriptor(queryDescriptor) ==
    LET filterClauses == <<PrimaryClause(queryDescriptor)>>
                             \o OptionalClauses(queryDescriptor.filters)
    IN  IF Len(filterClauses) = 1 THEN filterClauses[1]
        ELSE Combination("and", filterClauses)

FilterBuilderCalls ==
    {FunctionCall("buildFiltersFromQueryDescriptor", queryDescriptor) :
        queryDescriptor \in QueryDescriptors}

FiltersBuilt ==
    /\ Called("buildFiltersFromQueryDescriptor")
    /\ Return(buildFiltersFromQueryDescriptor(evaluation.input))

\* ---- cache keys of the read requests ----

\* identifiers passed to one metadata lookup in the model
MaxLookupIdentifiers == 3

\* JSON.stringify of a filter expression, token by token
RECURSIVE StringifyFilter(_)
StringifyOperand(value) ==
    CASE value.type = "filter" -> StringifyFilter(value.filter[1])
      [] value.type = "boolean" -> <<value.text>>
      [] value.text # "" -> <<"\"", value.text, "\"">>
      [] OTHER -> <<"\"">> \o value.characters \o <<"\"">>

RECURSIVE StringifyAll(_)
StringifyAll(filters) ==
    IF filters = <<>> THEN <<>>
    ELSE <<",">> \o StringifyFilter(Head(filters)) \o StringifyAll(Tail(filters))

StringifyFilter(filter) ==
    IF filter.op = "leaf"
    THEN <<"[", "\"", filter.name, "\"", ",", "\"", filter.operator, "\"", ",">>
             \o StringifyOperand(filter.value) \o <<"]">>
    ELSE <<"[", "\"", filter.op, "\"">> \o StringifyAll(filter.children) \o <<"]">>

\* the cache key of fetchVisualNovelEntries for the first page of a descriptor
\* in the default order
ListQueryCacheKey(queryDescriptor) ==
    JsonStringify(ListRequestPayload(
        [queryFilters |->
             JsonValue(StringifyFilter(buildFiltersFromQueryDescriptor(queryDescriptor))),
         requestedFields |-> JsonValue(<<"id, title, rating, image.thumbnail, image.sexual">>),
         maxResults |-> JsonValue(<<"20">>),
         pageNumber |-> JsonValue(<<"1">>),
         sortField |-> Undefined,
         reverseSort |-> Undefined]))

\* the identifiers of the model in the order of Array.prototype.sort (by
\* UTF-16 code units)
LookupIdentifiersInOrder == <<" ", "g1", "g10", "g2">>

BlankTexts == {"", " "}

\* [...new Set(identifiers.filter((identifier) => identifier.trim() !== ''))].sort()
SortedDistinctNonBlank(identifiers) ==
    SelectSeq(LookupIdentifiersInOrder,
              LAMBDA identifier : /\ identifier \notin BlankTexts
                                  /\ identifier \in Elements(identifiers))

\* the cache key of fetchTagMetadataByIds; no key when it returns early
TagMetadataCacheKey(tagIdentifiers) ==
    LET normalizedTagIdentifiers == SortedDistinctNonBlank(tagIdentifiers)
        identifierFilter ==
            IF Len(normalizedTagIdentifiers) = 1
            THEN Leaf("id", "=", StringOperand(normalizedTagIdentifiers[1]))
            ELSE Combination("or",
                     [index \in 1..Len(normalizedTagIdentifiers) |->
                         Leaf("id", "=", StringOperand(normalizedTagIdentifiers[index]))])
    IN  IF normalizedTagIdentifiers = <<>> THEN <<>>
        ELSE JsonStringify(
                 << <<"filters", JsonValue(StringifyFilter(identifierFilter))>>,
                    <<"fields", JsonValue(<<"id, name, category">>)>>,
                    <<"results",
                      JsonValue(DecimalString(Len(normalizedTagIdentifiers)))>> >>)

\* the selections the filter panel can hold: each language at most once, in
\* the order of the toggles
LanguageSelections ==
    {languages \in ArraysOf(LanguageCodes, MaxLanguages) :
        \A first, second \in 1..Len(languages) :
            languages[first] = languages[second] => first = second}

TextQuery(languages) ==
    [kind |-> "text", term |-> <<"a">>, tagIdentifier |-> NoIdentifier,
     developerIdentifier |-> NoIdentifier,
     filters |-> [languages |-> languages, originalLanguage |-> <<>>,
                  onlyWithScreenshots |-> FALSE, onlyWithDescription |-> FALSE]]

\* two reads of the same operation
CacheKeyCalls ==
    {FunctionCall("fetchTagMetadataByIds", [first |-> first, second |-> second]) :
        first \in ArraysOf({"g1", "g2", "g10", " "}, MaxLookupIdentifiers),
        second \in ArraysOf({"g1", "g2", "g10"}, MaxLookupIdentifiers)}
    \cup {FunctionCall("fetchVisualNovelEntries",
                       [first |-> TextQuery(first), second |-> TextQuery(second)]) :
             first \in LanguageSelections, second \in LanguageSelections}

TagMetadataRequested ==
    /\ Called("fetchTagMetadataByIds")
    /\ Return([first |-> TagMetadataCacheKey(evaluation.input.first),
               second |-> TagMetadataCacheKey(evaluation.input.second)])

ListQueriesRequested ==
    /\ Called("fetchVisualNovelEntries")
    /\ Return([first |-> ListQueryCacheKey(evaluation.input.first),
               second |-> ListQueryCacheKey(evaluation.input.second)])

-----------------------------------------------------------------------------
(* VisualNovelList: the background fetch of the membership identifiers.    *)
(* Each run of the effect owns a flag hasLifecycleBeenCancelled, which the *)
(* cleanup of that run sets when a dependency changes.                     *)

MaxSessions == 4
MaxMembershipFetches == 3

NoSession == 0
\* the identifiers fetchAuthenticatedUserVisualNovelIdentifierSet returns for a session
IdentifierSetOf(session) == {[listOf |-> session]}

\* the list is mounted without a session: the effect has run once and has
\* set the empty set
IdleMembership ==
    [authenticatedSession |-> NoSession, hasListReadPermission |-> FALSE,
     userListIdentifierSet |-> {}, fetches |-> <<>>, sessions |-> 0,
     lastEvent |-> "mount"]

\* the cleanup of the previous run of the effect
MembershipEffectCleanup(state) ==
    [state EXCEPT !.fetches =
        [position \in 1..Len(state.fetches) |->
            [state.fetches[position] EXCEPT !.hasLifecycleBeenCancelled = TRUE]]]

\* executeUserListIdentifierFetch up to its await
executeUserListIdentifierFetch(state) ==
    IF state.authenticatedSession = NoSession \/ ~state.hasListReadPermission
    THEN [state EXCEPT !.userListIdentifierSet = {}]
    ELSE [state EXCEPT !.fetches =
            Append(@, [session |-> state.authenticatedSession,
                       hasLifecycleBeenCancelled |-> FALSE])]

\* the session-cleared effect, on the same dependency
MembershipSessionClearedEffect(state) ==
    IF state.authenticatedSession # NoSession THEN state
    ELSE [state EXCEPT !.userListIdentifierSet = {}]

\* a continuation that commits whatever the flag says
MembershipContinuationIgnoringCancellation(state, fetch, succeeded) ==
    [state EXCEPT
        !.userListIdentifierSet =
            IF succeeded THEN IdentifierSetOf(fetch.session) ELSE {},
        !.lastEvent = IF succeeded THEN "committed" ELSE "emptied"]

\* executeUserListIdentifierFetch after its await: the try and the catch
MembershipContinuation(state, fetch, succeeded) ==
    IF fetch.hasLifecycleBeenCancelled
    THEN [state EXCEPT !.lastEvent = "discarded"]
    ELSE [state EXCEPT
            !.userListIdentifierSet =
                IF succeeded THEN IdentifierSetOf(fetch.session) ELSE {},
            !.lastEvent = IF succeeded THEN "committed" ELSE "emptied"]

MembershipStep(state) ==
    /\ membership' = state
    /\ UNCHANGED <<listVars, gatewayVars, userListFetch, paging, evaluation,
                   authentication, detailView, characterView, listWrite>>

\* the props change: App holds another session object (or none), with or
\* without the listread permission; both effects run again
SessionPropChanges(session, hasListReadPermission) ==
    /\ session # membership.authenticatedSession
    /\ session = NoSession => ~hasListReadPermission
    /\ Len(membership.fetches) < MaxMembershipFetches
    /\ MembershipStep(
          executeUserListIdentifierFetch(
              MembershipSessionClearedEffect(
                  MembershipEffectCleanup(
                      [membership EXCEPT
                          !.authenticatedSession = session,
                          !.hasListReadPermission = hasListReadPermission,
                          !.sessions = IF session = NoSession THEN @ ELSE session,
                          !.lastEvent = "session"]))))

MembershipFetchSettles(position, succeeded) ==
    /\ position \in 1..Len(membership.fetches)
    /\ MembershipStep(
          MembershipContinuation(
              [membership EXCEPT !.fetches = RemoveAt(@, position)],
              membership.fetches[position], succeeded))


MembershipNext ==
    \/ \E session \in {NoSession} \cup
                      {candidate \in 1..MaxSessions :
                          candidate = membership.sessions + 1} :
       \E hasListReadPermission \in BOOLEAN :
           SessionPropChanges(session, hasListReadPermission)
    \/ \E position \in 1..Len(membership.fetches) : \E succeeded \in BOOLEAN :
           MembershipFetchSettles(position, succeeded)

-----------------------------------------------------------------------------
(* VisualNovelDetailView: the effect that reloads the record when the       *)
(* selected identifier changes. Every value on display carries the run of   *)
(* the effect that wrote it (0: the value the effect resets it to).         *)

MaxDetailRuns == 3
MaxDetailFlows == 2

DetailIdentifiers == {"v1", "v2"}
NoSelection == "none"

NullDetailData == [run |-> 0, hasSupplemental |-> FALSE]
ResetValue == [run |-> 0]
WrittenBy(flow) == [run |-> flow.run]

\* App shows the list: no detail view is mounted
IdleDetailView ==
    [visualNovelIdentifier |-> NoSelection,
     detailedVisualNovelData |-> NullDetailData,
     isDataLoading |-> TRUE,
     isSupplementalDataLoading |-> TRUE,
     storeLinkEntries |-> ResetValue,
     networkErrorMessage |-> ResetValue,
     tagCategoryByIdentifier |-> ResetValue,
     flows |-> <<>>, runs |-> 0, lastEvent |-> "init"]

\* the cleanup of the effect: hasLifecycleBeenCancelled = true
DetailEffectCleanup(state) ==
    [state EXCEPT !.flows =
        [position \in 1..Len(state.flows) |->
            [state.flows[position] EXCEPT !.hasLifecycleBeenCancelled = TRUE]]]

\* the body of the effect up to the await of executeDetailedDataFetch
DetailFetchEffect(state) ==
    [state EXCEPT
        !.isDataLoading = TRUE,
        !.isSupplementalDataLoading = TRUE,
        !.storeLinkEntries = ResetValue,
        !.networkErrorMessage = ResetValue,
        !.detailedVisualNovelData = NullDetailData,
        !.tagCategoryByIdentifier = ResetValue,
        !.runs = @ + 1,
        !.flows = Append(@, [run |-> state.runs + 1,
                             visualNovelIdentifier |-> state.visualNovelIdentifier,
                             stage |-> "core",
                             hasLifecycleBeenCancelled |-> FALSE])]

\* a guard that lets every flow write
WhenNotCancelledIgnored(flow, state, written) == written

\* `if (!hasLifecycleBeenCancelled) { ... }`
WhenNotCancelled(flow, state, written) ==
    IF flow.hasLifecycleBeenCancelled THEN state ELSE written

Awaiting(state, flow, stage) ==
    [state EXCEPT !.flows = Append(@, [flow EXCEPT !.stage = stage])]

\* the outer catch and finally of executeDetailedDataFetch
DetailFlowCaught(state, flow) ==
    WhenNotCancelled(flow, state,
        [state EXCEPT !.networkErrorMessage = WrittenBy(flow),
                      !.isSupplementalDataLoading = FALSE,
                      !.isDataLoading = FALSE])

\* the inner finally, then the outer finally
DetailFlowReturns(state, flow) ==
    WhenNotCancelled(flow, state,
        [state EXCEPT !.isSupplementalDataLoading = FALSE,
                      !.isDataLoading = FALSE])

\* executeDetailedDataFetch from the await that has settled to the next one;
\* outcome: "rejected", "empty" (no result), "found", "tagged" (a result
\* with tags)
DetailFlowContinuation(state, flow, outcome) ==
    CASE flow.stage = "core" ->
            IF outcome = "rejected" THEN DetailFlowCaught(state, flow)
            ELSE IF outcome = "empty"
            THEN WhenNotCancelled(flow, state,
                    [state EXCEPT !.networkErrorMessage = WrittenBy(flow),
                                  !.isDataLoading = FALSE,
                                  !.isSupplementalDataLoading = FALSE])
            ELSE Awaiting(
                    WhenNotCancelled(flow, state,
                        [state EXCEPT
                            !.detailedVisualNovelData =
                                [run |-> flow.run, hasSupplemental |-> FALSE],
                            !.isDataLoading = FALSE]),
                    flow, "supplemental")
      [] flow.stage = "supplemental" ->
            IF outcome = "rejected"
            THEN DetailFlowCaught(DetailFlowReturns(state, flow), flow)
            ELSE With(
                    IF outcome = "empty" THEN state
                    ELSE WhenNotCancelled(flow, state,
                            [state EXCEPT
                                !.detailedVisualNovelData =
                                    IF @ = NullDetailData THEN @
                                    ELSE [run |-> flow.run,
                                          hasSupplemental |-> TRUE]]),
                    LAMBDA merged :
                        With(WhenNotCancelled(flow, merged,
                                [merged EXCEPT
                                    !.storeLinkEntries = WrittenBy(flow)]),
                             LAMBDA linked :
                                IF outcome = "tagged"
                                THEN Awaiting(linked, flow, "tags")
                                ELSE DetailFlowReturns(linked, flow)))
      [] OTHER ->
            DetailFlowReturns(
                WhenNotCancelled(flow, state,
                    [state EXCEPT !.tagCategoryByIdentifier =
                        IF outcome = "rejected" THEN ResetValue
                        ELSE WrittenBy(flow)]),
                flow)

DetailStep(state) ==
    /\ detailView' = state
    /\ UNCHANGED <<listVars, gatewayVars, userListFetch, paging, evaluation,
                   authentication, membership, characterView, listWrite>>

\* the visualNovelIdentifier prop changes: the cleanup of the last run, then
\* the effect again
handleNavigateToDetailView(visualNovelIdentifier) ==
    /\ visualNovelIdentifier # detailView.visualNovelIdentifier
    /\ detailView.runs < MaxDetailRuns
    /\ Len(detailView.flows) < MaxDetailFlows
    /\ DetailStep(
          DetailFetchEffect(
              DetailEffectCleanup(
                  [detailView EXCEPT
                      !.visualNovelIdentifier = visualNovelIdentifier,
                      !.lastEvent = "selected"])))

DetailFlowSettles(position, outcome) ==
    /\ position \in 1..Len(detailView.flows)
    /\ DetailStep(
          DetailFlowContinuation(
              [detailView EXCEPT
                  !.flows = RemoveAt(@, position),
                  !.lastEvent =
                      IF detailView.flows[position].hasLifecycleBeenCancelled
                      THEN "discarded" ELSE "settled"],
              detailView.flows[position], outcome))

DetailNext ==
    \/ \E visualNovelIdentifier \in DetailIdentifiers :
           handleNavigateToDetailView(visualNovelIdentifier)
    \/ \E position \in 1..Len(detailView.flows) :
       \E outcome \in {"rejected", "empty", "found", "tagged"} :
           DetailFlowSettles(position, outcome)

-----------------------------------------------------------------------------
(* CharacterDetailView: handleTraitSelection. The matches on display carry *)
(* the trait whose lookup wrote them ("none": the empty list).              *)

MaxTraitLookups == 3
MaxTraitLookupsInFlight == 2

TraitIdentifiers == {"i1", "i2"}
NoTrait == "none"
NoMatches == [traitId |-> NoTrait]
MatchesOf(traitId) == [traitId |-> traitId]

\* the character is displayed and no trait has been selected
IdleCharacterView ==
    [selectedTraitId |-> NoTrait,
     isTraitLookupLoading |-> FALSE,
     traitMatchedCharacters |-> NoMatches,
     traitMatchedVisualNovels |-> NoMatches,
     lookups |-> <<>>, started |-> 0, lastEvent |-> "init"]

\* handleTraitSelection up to its first await
TraitSelected(state, traitId) ==
    [state EXCEPT
        !.selectedTraitId = traitId,
        !.isTraitLookupLoading = TRUE,
        !.traitMatchedCharacters = NoMatches,
        !.traitMatchedVisualNovels = NoMatches,
        !.started = @ + 1,
        !.lookups = Append(@, [id |-> state.started + 1, traitId |-> traitId,
                               stage |-> "characters"]),
        !.lastEvent = "selected"]

\* the catch and the finally of handleTraitSelection
TraitLookupCaught(state) ==
    [state EXCEPT !.traitMatchedCharacters = NoMatches,
                  !.traitMatchedVisualNovels = NoMatches,
                  !.isTraitLookupLoading = FALSE]

\* handleTraitSelection from the await that has settled to the next await or
\* to its end; outcome: "rejected", "unlinked" (characters without visual
\* novels), "matched"
TraitLookupContinuation(state, lookup, outcome) ==
    CASE outcome = "rejected" -> TraitLookupCaught(state)
      [] lookup.stage = "characters" /\ outcome = "unlinked" ->
            [state EXCEPT !.traitMatchedCharacters = MatchesOf(lookup.traitId),
                          !.traitMatchedVisualNovels = NoMatches,
                          !.isTraitLookupLoading = FALSE]
      [] lookup.stage = "characters" /\ outcome = "matched" ->
            [state EXCEPT !.traitMatchedCharacters = MatchesOf(lookup.traitId),
                          !.lookups = Append(@, [lookup EXCEPT
                                                    !.stage = "visualNovels"])]
      [] OTHER ->
            [state EXCEPT !.traitMatchedVisualNovels = MatchesOf(lookup.traitId),
                          !.isTraitLookupLoading = FALSE]

CharacterStep(state) ==
    /\ characterView' = state
    /\ UNCHANGED <<listVars, gatewayVars, userListFetch, paging, evaluation,
                   authentication, membership, detailView, listWrite>>

\* onClick of a trait chip
handleTraitSelection(traitId) ==
    /\ characterView.started < MaxTraitLookups
    /\ Len(characterView.lookups) < MaxTraitLookupsInFlight
    /\ CharacterStep(TraitSelected(characterView, traitId))

TraitLookupSettles(position, outcome) ==
    /\ position \in 1..Len(characterView.lookups)
    /\ CharacterStep(
          TraitLookupContinuation(
              [characterView EXCEPT !.lookups = RemoveAt(@, position),
                                    !.lastEvent = "settled"],
              characterView.lookups[position], outcome))

CharacterNext ==
    \/ \E traitId \in TraitIdentifiers : handleTraitSelection(traitId)
    \/ \E position \in 1..Len(characterView.lookups) :
       \E outcome \in {"rejected", "unlinked", "matched"} :
           TraitLookupSettles(position, outcome)

-----------------------------------------------------------------------------
(* RootApplication: handleAddVisualNovelToUserList and                      *)
(* handleUpdateVisualNovelUserListStatus, called by the handlers of a list  *)
(* item, next to the personal-list cache and the membership set.            *)

MaxListWrites == 3

TokenPermissions == {"listread", "listwrite"}
NullSession == [present |-> FALSE, permissions |-> {}]
SessionWith(permissions) == [present |-> TRUE, permissions |-> permissions]
WritableIdentifiers == {"v1", "v2"}

IdleListWrite ==
    [authenticatedSession |-> NullSession,
     userListQueryCache |-> {},          \* the keys cached
     userListIdentifierSet |-> {},
     pending |-> <<>>,                   \* the write requests awaiting a response
     requests |-> 0,                     \* the network requests issued so far
     addOperationMessage |-> "null",
     lastEvent |-> "init"]

\* a gate that any session passes
HasSession(session) == session.present

\* `authenticatedSession.permissions.includes('listwrite')`, after the null check
HasListWritePermission(session) ==
    session.present /\ "listwrite" \in session.permissions

\* handleAddVisualNovelToUserList / handleUpdateVisualNovelUserListStatus up to
\* the await, below the try of the item's click handler: the thrown error
\* becomes the item's message, the request is issued otherwise
handleListWrite(state, operation, visualNovelIdentifier) ==
    IF ~state.authenticatedSession.present
    THEN [state EXCEPT !.addOperationMessage = "Authentication required",
                       !.lastEvent = "threw"]
    ELSE IF ~HasListWritePermission(state.authenticatedSession)
    THEN [state EXCEPT !.addOperationMessage = "no listwrite permission",
                       !.lastEvent = "threw"]
    ELSE [state EXCEPT
            !.addOperationMessage = "null",
            !.requests = @ + 1,
            !.pending = Append(@, [operation |-> operation,
                                   visualNovelIdentifier |-> visualNovelIdentifier]),
            !.lastEvent = "requested"]

\* the write returns: the gateway clears the cache, and an add marks the item
ListWriteContinuation(state, write, succeeded) ==
    IF ~succeeded
    THEN [state EXCEPT !.addOperationMessage = "failed", !.lastEvent = "failed"]
    ELSE [state EXCEPT
            !.userListQueryCache = {},
            !.userListIdentifierSet =
                IF write.operation = "add"
                THEN @ \cup {write.visualNovelIdentifier} ELSE @,
            !.addOperationMessage = "done",
            !.lastEvent = "written"]

ListWriteStep(state) ==
    /\ listWrite' = state
    /\ UNCHANGED <<listVars, gatewayVars, userListFetch, paging, evaluation,
                   authentication, membership, detailView, characterView>>

\* App holds another session, or none
ListWriteSessionChanges(session) ==
    /\ session # listWrite.authenticatedSession
    /\ ListWriteStep([listWrite EXCEPT !.authenticatedSession = session,
                                       !.lastEvent = "session"])

\* a personal-list read has returned and is in the cache
UserListReadCached ==
    /\ listWrite.authenticatedSession.present
    /\ listWrite.userListQueryCache = {}
    /\ ListWriteStep([listWrite EXCEPT !.userListQueryCache = {"page1"},
                                       !.lastEvent = "cached"])

handleAddToUserListClick(visualNovelIdentifier) ==
    /\ listWrite.requests < MaxListWrites
    /\ ListWriteStep(handleListWrite(listWrite, "add", visualNovelIdentifier))

handleUpdateUserListStatusClick(visualNovelIdentifier) ==
    /\ listWrite.requests < MaxListWrites
    /\ ListWriteStep(handleListWrite(listWrite, "update", visualNovelIdentifier))

ListWriteSettles(position, succeeded) ==
    /\ position \in 1..Len(listWrite.pending)
    /\ ListWriteStep(
          ListWriteContinuation([listWrite EXCEPT !.pending = RemoveAt(@, position)],
                                listWrite.pending[position], succeeded))

ListWriteNext ==
    \/ \E session \in {NullSession} \cup
                      {SessionWith(permissions) : permissions \in SUBSET TokenPermissions} :
           ListWriteSessionChanges(session)
    \/ UserListReadCached
    \/ \E visualNovelIdentifier \in WritableIdentifiers :
           handleAddToUserListClick(visualNovelIdentifier)
    \/ \E visualNovelIdentifier \in WritableIdentifiers :
           handleUpdateUserListStatusClick(visualNovelIdentifier)
    \/ \E position \in 1..Len(listWrite.pending) : \E succeeded \in BOOLEAN :
           ListWriteSettles(position, succeeded)

\* no view beside the one a specification is about has done anything
ViewsIdle ==
    /\ membership = IdleMembership
    /\ detailView = IdleDetailView
    /\ characterView = IdleCharacterView
    /\ listWrite = IdleListWrite

Init ==
    /\ ListInit
    /\ GatewayInit
    /\ userListFetch = IdleUserListFetch
    /\ authentication = SignedOut
    /\ paging = IdlePaging
    /\ evaluation = NoEvaluation
    /\ ViewsIdle

\* the raw personal lists the paging loop can end with
ReconcilerInit ==
    /\ ListInit
    /\ GatewayInit
    /\ userListFetch \in {PagesFetched(entries) : entries \in RawUserLists}
    /\ authentication = SignedOut
    /\ paging = IdlePaging
    /\ evaluation = NoEvaluation
    /\ ViewsIdle

PagingInit ==
    /\ ListInit
    /\ GatewayInit
    /\ userListFetch = IdleUserListFetch
    /\ authentication = SignedOut
    /\ paging \in {StartPaging(operation) : operation \in PagedOperations}
    /\ evaluation = NoEvaluation
    /\ ViewsIdle

AuthenticationInit ==
    /\ ListInit
    /\ GatewayInit
    /\ userListFetch = IdleUserListFetch
    /\ paging = IdlePaging
    /\ evaluation = NoEvaluation
    /\ authentication \in {Starting(storedToken) :
                              storedToken \in AuthenticationTokens \cup {NoToken}}
    /\ ViewsIdle

\* the whole list machine
Next == ListNext(OverlappingLimits)

Spec == Init /\ [][Next]_vars

\* search, sort and infinite scroll, with overlapping responses
ScrollNext ==
    \/ Mount(ScrollLimits)
    \/ handleSearchFormSubmission(ScrollLimits)
    \/ \E term \in TypedTerms : HandleSearchInputChange(term, ScrollLimits)
    \/ DebounceTimerFires(ScrollLimits)
    \/ \E sortField \in SortFieldChoices : handleSortFieldChange(sortField, ScrollLimits)
    \/ loadNextPage(ScrollLimits)
    \/ \E position \in 1..Len(inflight) : \E succeeded \in BOOLEAN :
           FetchResolves(position, succeeded, ScrollLimits)

SpecScroll == Init /\ [][ScrollNext]_vars

\* the same part of the machine with one fetch at a time
SequentialNext ==
    \/ Mount(SequentialLimits)
    \/ handleSearchFormSubmission(SequentialLimits)
    \/ \E term \in TypedTerms : HandleSearchInputChange(term, SequentialLimits)
    \/ DebounceTimerFires(SequentialLimits)
    \/ \E sortField \in SortFieldChoices :
           handleSortFieldChange(sortField, SequentialLimits)
    \/ loadNextPage(SequentialLimits)
    \/ \E position \in 1..Len(inflight) : \E succeeded \in BOOLEAN :
           FetchResolves(position, succeeded, SequentialLimits)

SpecSequential == Init /\ [][SequentialNext]_vars

\* the personal-list mode and the external selections, one fetch at a time
PersonalListNext ==
    \/ Mount(SequentialLimits)
    \/ SessionEstablished(SequentialLimits)
    \/ handleConfirmLogout(SequentialLimits)
    \/ HandleUserListToggle(SequentialLimits)
    \/ \E tagName \in TagNames : handleTagSelection(tagName, SequentialLimits)
    \/ \E developerName \in DeveloperNames :
           handleDeveloperSelection(developerName, SequentialLimits)
    \/ handleNavigateToHome(SequentialLimits)
    \/ \E sortField \in SortFieldChoices :
           handleSortFieldChange(sortField, SequentialLimits)
    \/ handleSortDirectionToggle(SequentialLimits)
    \/ \E position \in 1..Len(inflight) : \E succeeded \in BOOLEAN :
           FetchResolves(position, succeeded, SequentialLimits)

SpecPersonalList == Init /\ [][PersonalListNext]_vars

\* the debounced live search next to the mode toggle and an external selection
LiveSearchNext ==
    \/ Mount(LiveSearchLimits)
    \/ SessionEstablished(LiveSearchLimits)
    \/ \E term \in TypedTerms : HandleSearchInputChange(term, LiveSearchLimits)
    \/ \E draftFilters \in FilterChoices :
           handleFilterApplication(draftFilters, LiveSearchLimits)
    \/ DebounceTimerFires(LiveSearchLimits)
    \/ HandleUserListToggle(LiveSearchLimits)
    \/ \E tagName \in TagNames : handleTagSelection(tagName, LiveSearchLimits)
    \/ \E position \in 1..Len(inflight) : \E succeeded \in BOOLEAN :
           FetchResolves(position, succeeded, LiveSearchLimits)

SpecLiveSearch == Init /\ [][LiveSearchNext]_vars

\* the response cache: cached reads, personal-list writes and the clock
CacheNext ==
    \/ \E parameters \in QueryParameterChoices :
           fetchVisualNovelEntries(parameters, CacheLimits)
    \/ \E read \in UserListReadChoices :
           fetchAuthenticatedUserVisualNovelList(read, CacheLimits)
    \/ \E visualNovelIdentifier \in WriteIdentifierChoices :
           addVisualNovelToAuthenticatedUserList(visualNovelIdentifier, CacheLimits)
    \/ \E visualNovelIdentifier \in {<<"1">>} :
           updateAuthenticatedUserVisualNovelStatusLabel(visualNovelIdentifier, CacheLimits)
    \/ \E visualNovelIdentifier \in {<<"1">>} :
           removeVisualNovelFromAuthenticatedUserList(visualNovelIdentifier, CacheLimits)
    \/ \E position \in 1..Len(calls) :
       \E outcome \in RemoteOutcomes(calls[position].operation) :
           RemoteResponds(position, outcome, CacheLimits)
    \/ \E milliseconds \in ClockSteps : AdvanceClock(milliseconds, CacheLimits)

SpecGateway == Init /\ [][CacheNext]_vars

\* the operations with a compatibility fallback, one call at a time
FallbackNext ==
    \/ \E read \in UserListReadChoices :
           fetchAuthenticatedUserVisualNovelList(read, FallbackLimits)
    \/ \E visualNovelIdentifier \in WriteIdentifierChoices :
           addVisualNovelToAuthenticatedUserList(visualNovelIdentifier, FallbackLimits)
    \/ \E visualNovelIdentifier \in LookupIdentifierChoices :
           fetchCharacterEntriesByVisualNovelId(visualNovelIdentifier, FallbackLimits)
    \/ \E position \in 1..Len(calls) :
       \E outcome \in RemoteOutcomes(calls[position].operation) :
           RemoteResponds(position, outcome, FallbackLimits)

SpecFallback == Init /\ [][FallbackNext]_vars

\* the search fetches of the list next to the gateway read they go through
MaxFailedFetches == 3
MaxFailedCalls == 2
FailedFetchListLimits == [fetches |-> MaxFailedFetches, inflight |-> MaxInFlight]
FailedFetchGatewayLimits == [started |-> MaxFailedCalls, calls |-> 1, clock |-> 0]

FailedFetchNext ==
    \/ Mount(FailedFetchListLimits)
    \/ handleSearchFormSubmission(FailedFetchListLimits)
    \/ loadNextPage(FailedFetchListLimits)
    \/ \E position \in 1..Len(inflight) : \E succeeded \in BOOLEAN :
           FetchResolves(position, succeeded, FailedFetchListLimits)
    \/ \E parameters \in QueryParameterChoices :
           fetchVisualNovelEntries(parameters, FailedFetchGatewayLimits)
    \/ \E position \in 1..Len(calls) :
       \E outcome \in RemoteOutcomes(calls[position].operation) :
           RemoteResponds(position, outcome, FailedFetchGatewayLimits)

SpecFailedFetch == Init /\ [][FailedFetchNext]_vars

SpecMembership == Init /\ [][MembershipNext]_vars

SpecDetail == Init /\ [][DetailNext]_vars

SpecCharacter == Init /\ [][CharacterNext]_vars

SpecListWrite == Init /\ [][ListWriteNext]_vars

\* the personal-list fetch after its paging loop, over every raw list
ReconcilerNext ==
    \/ UserListPagesFetched
    \/ \E caseInsensitive \in BOOLEAN : HydrationResponds(caseInsensitive)
    \/ HydrationRejects

SpecReconciler == ReconcilerInit /\ [][ReconcilerNext]_vars

\* the paged reads
PagingNext ==
    \/ PageRequested
    \/ PagingLoopExits
    \/ \E response \in PageResponseChoices : PageResponds(response)
    \/ PageRejects

SpecPaging == PagingInit /\ [][PagingNext]_vars

\* every request is answered or fails, and the loop goes on when it can
SpecPagingFair == PagingInit /\ [][PagingNext]_vars /\ WF_vars(PagingNext)

\* the functions without side effects, on every argument of the bounded sets
FunctionsInit ==
    /\ ListInit
    /\ GatewayInit
    /\ userListFetch = IdleUserListFetch
    /\ authentication = SignedOut
    /\ paging = IdlePaging
    /\ evaluation \in StatusDerivationCalls \cup StatusWriteCalls \cup NormalizerCalls
                       \cup FilterBuilderCalls \cup CacheKeyCalls
    /\ ViewsIdle

FunctionsNext ==
    \/ StatusLabelDerived
    \/ TagMetadataRequested
    \/ ListQueriesRequested
    \/ FiltersBuilt
    \/ VisualNovelIdentifierNormalized
    \/ RawVisualNovelIdentifierNormalized
    \/ \E statusLabelIdentifier \in 1..6 : \E succeeded \in BOOLEAN :
           StatusLabelWritten(statusLabelIdentifier, succeeded)

SpecFunctions == FunctionsInit /\ [][FunctionsNext]_vars

\* signing in, restoring a stored token and signing out
AuthenticationNext ==
    \/ RestoreEffect
    \/ \E tokenInputValue \in AuthenticationTokens :
           handleAuthenticationFormSubmit(tokenInputValue)
    \/ \E position \in 1..Len(authentication.pending) : \E succeeded \in BOOLEAN :
           ValidationResolves(position, succeeded)
    \/ ConfirmLogout

SpecAuthentication == AuthenticationInit /\ [][AuthenticationNext]_vars

-----------------------------------------------------------------------------
(* Properties of the list machine *)

RECURSIVE ConcatenatedPages(_, _)
ConcatenatedPages(queryDescriptor, pageCount) ==
    IF pageCount = 0 THEN <<>>
    ELSE ConcatenatedPages(queryDescriptor, pageCount - 1)
         \o ServerResults(queryDescriptor, pageCount)

AppendsInFlight == {position \in 1..Len(inflight) : inflight[position].shouldAppendResults}

\* this step started an append fetch
AppendStarted ==
    /\ Len(inflight') = Len(inflight) + 1
    /\ inflight'[Len(inflight')].shouldAppendResults

Occurrences(sequence, element) ==
    Cardinality({index \in 1..Len(sequence) : sequence[index] = element})

IsPermutation(first, second) ==
    /\ Len(first) = Len(second)
    /\ \A index \in 1..Len(first) :
           Occurrences(first, first[index]) = Occurrences(second, first[index])

\* C1: once the replace fetch started last (B) has committed, the displayed
\* result set, the hasMore flag and the active descriptor are those of B; the
\* late response of a replace fetch started before B changes none of them.
C1_LatestReplaceWins ==
    (latestReplace.committed /\ latestReplace.flow = "search")
        => /\ activeQueryDescriptor = latestReplace.queryDescriptor
           /\ currentResultPage = 1
                => /\ visualNovelDatabaseEntries
                        = ServerResults(latestReplace.queryDescriptor, 1)
                   /\ hasAdditionalResults
                        = ServerMore(latestReplace.queryDescriptor, 1)

\* C2: in every state that displays search results, the accumulated sequence is
\* the concatenation, in page order, of pages 1..currentResultPage of the active
\* descriptor, whatever the order in which the responses arrived.
C2_AccumulatedPagesOfActiveDescriptor ==
    (/\ visualNovelDatabaseEntries # <<>>
     /\ \A index \in 1..Len(visualNovelDatabaseEntries) :
            visualNovelDatabaseEntries[index].source.kind # "ulist")
        => visualNovelDatabaseEntries
             = ConcatenatedPages(activeQueryDescriptor, currentResultPage)

\* C3: loadNextPage starts an append fetch only when no replace or append fetch
\* is in flight and hasMore is true, so there are never two append fetches in
\* flight at once.
C3_LoadNextPageOnlyWhenIdle ==
    /\ [](Cardinality(AppendsInFlight) <= 1)
    /\ [][AppendStarted => (inflight = <<>> /\ hasAdditionalResults)]_vars

\* C4: with one fetch at a time, the accumulated sequence is the concatenation
\* of the server pages 1..currentResultPage in the order returned, the page
\* counter is the number of pages it holds, and after a response with
\* more = false a load-more request starts nothing.
C4_SequentialPagesAccumulate ==
    /\ visualNovelDatabaseEntries # <<>>
         => visualNovelDatabaseEntries
              = ConcatenatedPages(activeQueryDescriptor, currentResultPage)
    /\ (lastAction = "loadNextPage" /\ ~hasAdditionalResults)
         => (AppendsInFlight = {} /\ ~isLoadingAdditionalPage)

\* three pages of sizes 2, 2, 1 loaded one after the other and a fourth
\* load-more request made after the last page
C4_Witness ==
    /\ lastAction = "loadNextPage"
    /\ ~hasAdditionalResults
    /\ currentResultPage = 3
    /\ Len(visualNovelDatabaseEntries) = 5
    /\ inflight = <<>>

\* C10: a sort-field or sort-direction change made in personalList mode starts
\* no fetch, leaves the mode personalList and re-orders the displayed entries.
C10_SortInPersonalListIsLocal ==
    [][(isViewingUserList
        /\ lastAction' \in {"handleSortFieldChange", "handleSortDirectionToggle"})
          => /\ requestCount' = requestCount
             /\ isViewingUserList'
             /\ IsPermutation(visualNovelDatabaseEntries', visualNovelDatabaseEntries)]_vars

\* C11: in search mode a change of the search term is followed, after the quiet
\* period, by a replace fetch with a text descriptor carrying that term, also
\* after an external tag or developer selection.  The fetch can only come from
\* the debounce timeout, so every change of the term in search mode has to leave
\* a pending timeout that carries the term, the applied filters and the sort.
C11_TermChangeSchedulesDebounce ==
    [][(lastAction' = "HandleSearchInputChange" /\ ~isViewingUserList')
        => \E timer \in scheduledTimers' :
              /\ timer.term = activeSearchTerm'
              /\ timer.filters = appliedFilters'
              /\ timer.sort = appliedSort']_vars

\* the fetches started by this step
IssuedRequests ==
    {inflight'[position] : position \in
        {index \in 1..Len(inflight') : inflight'[index].id > requestCount}}

\* C12: at most one debounce timeout is pending at any time, and the pending
\* one was scheduled by the last qualifying change (it carries the current term,
\* applied filters and sort: every earlier timeout was cancelled); when it fires,
\* no timeout remains and exactly one fetch is issued, a page-1 replace fetch
\* with the text descriptor of the last term of the burst.
C12_SingleDebounceTimer ==
    /\ [](/\ Cardinality(scheduledTimers) <= 1
          /\ \A timer \in scheduledTimers :
                /\ timer.term = activeSearchTerm
                /\ timer.filters = appliedFilters
                /\ timer.sort = appliedSort)
    /\ [][lastAction' = "DebounceTimerFires"
            => /\ scheduledTimers' = {}
               /\ Cardinality(IssuedRequests) = 1
               /\ \A request \in IssuedRequests :
                     /\ request.queryDescriptor =
                            TextDescriptor(activeSearchTerm, appliedFilters, appliedSort)
                     /\ request.pageNumber = 1
                     /\ ~request.shouldAppendResults]_vars

\* the burst "a", "" of term changes after the mount fetch ended in one fetch
C12_Witness ==
    /\ lastAction = "DebounceTimerFires"
    /\ activeSearchTerm = ""
    /\ appliedFilters = DefaultFilterState
    /\ requestCount = 2
    /\ scheduledTimers = {}
    /\ inflight[Len(inflight)].queryDescriptor =
           TextDescriptor("", DefaultFilterState, DEFAULT_SORT_STATE)

\* C13: an external tag (developer) selection, in any state and also in
\* personal-list mode, issues in the same step, without a debounce, a page-1
\* replace fetch whose descriptor has kind tag (developer) and the requested
\* identifier, leaves the machine in search mode and empties the status
\* annotations.
C13_ExternalSelectionFetchesAtOnce ==
    [][/\ lastAction' = "handleTagSelection"
          => /\ \E request \in IssuedRequests :
                   /\ request.queryDescriptor.kind = "tag"
                   /\ request.queryDescriptor.tagIdentifier =
                          tagSearchRequest'.identifier
                   /\ request.pageNumber = 1
                   /\ ~request.shouldAppendResults
             /\ ~isViewingUserList'
             /\ userListStatusByIdentifier' = {}
       /\ lastAction' = "handleDeveloperSelection"
          => /\ \E request \in IssuedRequests :
                   /\ request.queryDescriptor.kind = "developer"
                   /\ request.queryDescriptor.developerIdentifier =
                          developerSearchRequest'.identifier
                   /\ request.pageNumber = 1
                   /\ ~request.shouldAppendResults
             /\ ~isViewingUserList'
             /\ userListStatusByIdentifier' = {}]_vars

\* a tag was selected while the personal list was displayed
C13_Witness ==
    /\ lastAction = "handleTagSelection"
    /\ visualNovelDatabaseEntries # <<>>
    /\ visualNovelDatabaseEntries[1].source = UserListSource
    /\ ~isViewingUserList
    /\ userListStatusByIdentifier = {}
    /\ inflight # <<>>
    /\ inflight[Len(inflight)].queryDescriptor.kind = "tag"

\* the machine was toggled into the personal list and has not left it: the
\* personal-list flow is the replace flow started last, and it is loading or
\* displayed
PersonalListEntered ==
    /\ latestReplace.flow = "ulist"
    /\ \/ isViewingUserList
       \/ \E position \in 1..Len(inflight) : inflight[position].id = latestReplace.id

\* C14: the toggle into the personal list starts the personal-list fetch, and
\* from the toggle until the machine leaves the personal-list mode no debounce
\* timeout fires into a search fetch, one scheduled before the toggle included.
C14_NoDebouncedFetchInPersonalList ==
    [][/\ (lastAction' = "HandleUserListToggle" /\ ~isViewingUserList)
          => \E request \in IssuedRequests : request.flow = "ulist"
       /\ PersonalListEntered => lastAction' # "DebounceTimerFires"]_vars

\* C15: the toggle from the personal list back to search issues a page-1
\* replace fetch whose descriptor equals the last active search descriptor
\* (kind, term, tag or developer identifier, filters and sort) and empties the
\* status annotations.  The filters and the sort may have been changed while
\* the personal list was displayed: either the descriptor's or the applied
\* ones are accepted here, the kind, the term and the identifiers are not
\* negotiable.
C15_ToggleBackRestoresDescriptor ==
    [][(lastAction' = "HandleUserListToggle" /\ isViewingUserList)
        => /\ \E request \in IssuedRequests :
                 /\ request.queryDescriptor.kind = activeQueryDescriptor.kind
                 /\ request.queryDescriptor.term = activeQueryDescriptor.term
                 /\ request.queryDescriptor.tagIdentifier =
                        activeQueryDescriptor.tagIdentifier
                 /\ request.queryDescriptor.developerIdentifier =
                        activeQueryDescriptor.developerIdentifier
                 /\ request.queryDescriptor.filters
                        \in {activeQueryDescriptor.filters, appliedFilters}
                 /\ request.queryDescriptor.sort
                        \in {activeQueryDescriptor.sort, appliedSort}
                 /\ request.pageNumber = 1
                 /\ ~request.shouldAppendResults
           /\ userListStatusByIdentifier' = {}]_vars

C17_FailureIsRecoverable ==
    [][/\ lastAction' = "FetchRejects"
          => /\ networkErrorMessage' = "error"
             /\ ~isDataLoading'
             /\ ~isLoadingAdditionalPage'
       /\ \A request \in IssuedRequests :
             ~request.shouldAppendResults
                => (networkErrorMessage' = "null" /\ isDataLoading')
       /\ (/\ lastAction' = "FetchResolves"
           /\ latestReplace.startedInError
           /\ \E position \in 1..Len(inflight) :
                  /\ inflight[position].id = latestReplace.id
                  /\ inflight'
                       = SubSeq(inflight, 1, position - 1)
                         \o SubSeq(inflight, position + 1, Len(inflight)))
          => /\ ~isDataLoading'
             /\ networkErrorMessage' = "null"
             /\ latestReplace'.committed
             /\ visualNovelDatabaseEntries' =
                    IF latestReplace.flow = "ulist"
                    THEN sortVisualNovelEntries(UserListEntries, appliedSort)
                    ELSE ServerResults(latestReplace.queryDescriptor, 1)]_vars

\* C28: a request for the sort field "default" carries neither a sort field
\* nor a reverse flag, whatever the direction; and a change of the sort field
\* leaves the stored direction as it was
C28_DefaultSortOmittedDirectionKept ==
    [][/\ \A request \in IssuedRequests :
              request.flow = "search" /\ request.sort.field = "default" =>
                  QuerySortParameters(request.sort) =
                      [sortField |-> "undefined", reverseSort |-> "undefined"]
       /\ lastAction' = "handleSortFieldChange" =>
              appliedSort'.direction = appliedSort.direction]_vars

\* C32: in personal-list mode the entries displayed are those of the personal
\* list (in some order), the page is 1 and hasMore is false, also after a search
\* fetch started before the toggle has resolved
C32_PersonalListNotOverwritten ==
    isViewingUserList =>
        /\ Len(visualNovelDatabaseEntries) = Len(UserListEntries)
        /\ {visualNovelDatabaseEntries[index] :
               index \in 1..Len(visualNovelDatabaseEntries)}
             = {UserListEntries[index] : index \in 1..Len(UserListEntries)}
        /\ currentResultPage = 1
        /\ ~hasAdditionalResults

PendingFetches(shouldAppendResults) ==
    {position \in 1..Len(inflight) :
        /\ ~inflight[position].isUnmounted
        /\ inflight[position].shouldAppendResults = shouldAppendResults}

\* C34: once mounted, isDataLoading is true exactly while a replace fetch
\* (search or personal list) is in flight, and isLoadingAdditionalPage exactly
\* while an append fetch is in flight
C34_LoadingFlagsTrackFetches ==
    mounted =>
        /\ isDataLoading = (PendingFetches(FALSE) # {})
        /\ isLoadingAdditionalPage = (PendingFetches(TRUE) # {})

\* C36: a fetch that fails leaves the accumulated entries, the current page,
\* hasAdditionalResults and the active descriptor as they were, both in the step
\* that starts it and in the step that rejects it, and the gateway read that
\* throws writes nothing to the response cache
C36_FailedFetchFrame ==
    [][/\ (lastAction' = "FetchRejects" \/ IssuedRequests # {}) =>
              UNCHANGED <<visualNovelDatabaseEntries, currentResultPage,
                          hasAdditionalResults, activeQueryDescriptor>>
       /\ lastStep'.event = "threw" =>
              UNCHANGED <<listQueryCache, userListQueryCache, characterQueryCache,
                          responseLog>>]_vars

\* a fetch has failed with entries on display, and a gateway read has thrown
\* with a response in the cache
C36_Witness ==
    /\ lastAction = "FetchRejects"
    /\ networkErrorMessage = "error"
    /\ visualNovelDatabaseEntries # <<>>
    /\ lastStep.event = "threw"
    /\ lastStep.operation = "fetchVisualNovelEntries"
    /\ listQueryCache # EmptyStore

-----------------------------------------------------------------------------
(* Properties of the response cache and of the gateway operations *)

UserListRead == "fetchAuthenticatedUserVisualNovelList"
AddToList == "addVisualNovelToAuthenticatedUserList"
CharacterLookup == "fetchCharacterEntriesByVisualNovelId"

\* the store an operation reads through
StoreReadBy(operation) ==
    CASE operation = "fetchVisualNovelEntries" -> listQueryCache
      [] operation = UserListRead -> userListQueryCache
      [] OTHER -> characterQueryCache

C6_ExpiredEntryNeverReturned ==
    (lastStep.read.entry.present /\ now > lastStep.read.entry.expiresAt)
        => /\ lastStep.read.result.isNull
           /\ lastStep.read.key \notin DOMAIN StoreReadBy(lastStep.operation)
           /\ lastStep.event = "requested"

C6_Witness ==
    /\ lastStep.read.entry.present
    /\ now = lastStep.read.entry.expiresAt + 1
    /\ lastStep.operation = UserListRead
    /\ lastStep.event = "requested"

\* C7: a fetchVisualNovelEntries call made no later than five minutes after the
\* last successful response for the same request returns the payload of that
\* response without a network request; a call made later misses, sends a
\* request, and the response to a request replaces the cached entry.
C7_CachedReadWithinLifetime ==
    lastStep.operation = "fetchVisualNovelEntries"
        => /\ (lastStep.phase = "call" /\ lastStep.cacheKey \in DOMAIN responseLog)
                => IF now <= responseLog[lastStep.cacheKey].at
                                + CACHE_TIME_TO_LIVE_MILLISECONDS
                   THEN /\ lastStep.event = "returned"
                        /\ lastStep.payload = responseLog[lastStep.cacheKey].payload
                        /\ lastStep.requests = 0
                   ELSE /\ lastStep.event = "requested"
                        /\ lastStep.requests = 1
                        /\ lastStep.cacheKey \notin DOMAIN listQueryCache
           /\ (lastStep.phase = "response" /\ lastStep.event = "returned")
                => /\ lastStep.cacheKey \in DOMAIN listQueryCache
                   /\ listQueryCache[lastStep.cacheKey]
                        = [expiresAt |-> now + CACHE_TIME_TO_LIVE_MILLISECONDS,
                           payload |-> lastStep.payload]

\* the same request is made again one millisecond after the lifetime of its
\* cached response and goes to the network
C7_Witness ==
    /\ lastStep.operation = "fetchVisualNovelEntries"
    /\ lastStep.phase = "call"
    /\ lastStep.cacheKey \in DOMAIN responseLog
    /\ now = responseLog[lastStep.cacheKey].at + CACHE_TIME_TO_LIVE_MILLISECONDS + 1
    /\ lastStep.event = "requested"

Rejected(outcome) == outcome.reached /\ outcome.status = 400

\* the requests a call sent after a rejected one
RetriesOf(call) ==
    Cardinality({index \in 1..Len(call.outcomes) :
                    Rejected(call.outcomes[index]) /\ index < call.requests})

ObservedCalls == {lastStep} \cup {calls[position] : position \in 1..Len(calls)}

C9_Outcome ==
    (lastStep.operation \in {UserListRead, AddToList} /\ lastStep.phase = "response")
        => /\ Len(lastStep.outcomes) \in 1..2
           /\ Len(lastStep.outcomes) = 1
                => IF Rejected(lastStep.outcomes[1])
                   THEN /\ lastStep.event = "retried"
                        /\ lastStep.requests = 2
                   ELSE /\ lastStep.requests = 1
                        /\ lastStep.event
                             = IF Ok(lastStep.outcomes[1]) THEN "returned" ELSE "threw"
           /\ Len(lastStep.outcomes) = 2
                => /\ Rejected(lastStep.outcomes[1])
                   /\ lastStep.requests = 2
                   /\ lastStep.event
                        = IF Ok(lastStep.outcomes[2]) THEN "returned" ELSE "threw"

\* C9: in the personal-list read and in add-to-list, a first response with the
\* rejected-request status (400) is followed by exactly one request of the
\* reduced shape; when that one fails too the call throws, and a call that
\* throws neither caches anything nor clears the personal-list cache; when it
\* succeeds the call returns; a first failure with another status throws
\* without a second request.
C9_FallbackOnce ==
    /\ []C9_Outcome
    /\ [][(lastStep'.operation \in {UserListRead, AddToList}
            /\ lastStep'.event = "threw")
              => userListQueryCache' = userListQueryCache]_vars

\* add-to-list is rejected, the reduced shape fails too, and the cached
\* personal list is still there
C9_Witness ==
    /\ lastStep.operation = AddToList
    /\ lastStep.event = "threw"
    /\ Len(lastStep.outcomes) = 2
    /\ Rejected(lastStep.outcomes[1])
    /\ DOMAIN userListQueryCache # {}


-----------------------------------------------------------------------------
(* Properties of the personal-list fetch after its paging loop *)

\* the identifiers sent in hydration requests so far
SentIdentifiers ==
    UNION {{userListFetch.requests[request][index] :
               index \in 1..Len(userListFetch.requests[request])} :
           request \in 1..Len(userListFetch.requests)}

\* the normalised entries without a non-empty title
PlaceholderEntries ==
    {userListFetch.normalizedVisualNovelEntries[index] :
        index \in {position \in 1..Len(userListFetch.normalizedVisualNovelEntries) :
                     IsPlaceholder(userListFetch.normalizedVisualNovelEntries[position])}}

\* every request has been sent
AllRequestsSent ==
    /\ userListFetch.phase \in {"hydrating", "displayed", "failed"}
    /\ Len(userListFetch.requests) = Len(userListFetch.identifierChunks)

\* C18: the identifiers sent in hydration requests are exactly the identifiers
\* of the placeholder entries (compared in canonical form); the identifier of an
\* entry that has a title is not sent unless a placeholder has it too, and
\* nothing is sent when there is no placeholder.
C18_OnlyPlaceholdersHydrated ==
    AllRequestsSent
        => {normalizeVisualNovelIdentifier(identifier) : identifier \in SentIdentifiers}
             = {normalizeVisualNovelIdentifier(userListEntry.id) :
                   userListEntry \in PlaceholderEntries}

\* the raw entry names a record in one of the shapes the remote uses: an
\* embedded record with an identifier, or a string or numeric identifier under
\* "vn" or "id"
CarriesIdentifier(userListEntry) ==
    \/ ~normalizeEntryIdentifier(userListEntry.id).isNull
    \/ userListEntry.vn.type = "object"
          /\ ~normalizeEntryIdentifier(userListEntry.vn.id).isNull
    \/ userListEntry.vn.type # "object"
          /\ ~normalizeEntryIdentifier(userListEntry.vn).isNull

\* C19: the view model displayed has exactly one entry per entry of the fetched
\* list, whatever the shape of the entry (embedded record, string identifier,
\* numeric identifier), so its length is the length of the fetched list; a
\* placeholder for which no record was found is still in it.
C19_OneEntryPerFetchedEntry ==
    (/\ userListFetch.phase = "displayed"
     /\ \A index \in 1..Len(userListFetch.accumulatedUserListEntries) :
            CarriesIdentifier(userListFetch.accumulatedUserListEntries[index]))
        => /\ Len(userListFetch.visualNovelDatabaseEntries)
                = Len(userListFetch.accumulatedUserListEntries)
           /\ \A userListEntry \in PlaceholderEntries :
                 (\A pair \in userListFetch.hydratedEntriesByIdentifier :
                      pair.key # PrefixedIdentifier(userListEntry.id))
                    => \E index \in 1..Len(userListFetch.visualNovelDatabaseEntries) :
                          userListFetch.visualNovelDatabaseEntries[index] = userListEntry

\* C20: a placeholder is replaced by the hydrated record whenever the two
\* identifiers refer to the same remote record, in whatever form each arrived
\* (number, unprefixed string, prefixed string, upper- or lower-case prefix):
\* the two are compared by their canonical lowercase prefixed identifiers.
C20_HydrationMatchesCanonically ==
    (userListFetch.phase = "displayed" /\ appliedSort.field = "default")
        => \A index \in 1..Len(userListFetch.normalizedVisualNovelEntries) :
           \A hydratedEntry \in userListFetch.received :
              (/\ IsPlaceholder(userListFetch.normalizedVisualNovelEntries[index])
               /\ normalizeVisualNovelIdentifier(
                      userListFetch.normalizedVisualNovelEntries[index].id)
                    = normalizeVisualNovelIdentifier(hydratedEntry.id))
                 => userListFetch.visualNovelDatabaseEntries[index]
                      = DisplayEntry(hydratedEntry.id, hydratedEntry.title)

-----------------------------------------------------------------------------
(* Properties of the paged reads *)

PagedLoops == {"identifierSet", "fullList"}

PagingLoopEnded == paging.phase \in {"returned", "failed"}

\* C21: the membership-set loop and the full-list loop request the pages
\* 1, 2, ... in order, never more than 40 of them even when every answer says
\* more = true, request nothing after the first answer whose more is false,
\* and end
C21_PagingLoopsBounded ==
    /\ [](paging.operation \in PagedLoops =>
            /\ Len(paging.requestedPages) <= 40
            /\ \A index \in 1..Len(paging.requestedPages) :
                   paging.requestedPages[index] = index
            /\ \A index \in 1..Len(paging.answers) :
                   paging.answers[index] = "false" =>
                       Len(paging.requestedPages) = index)
    /\ <>(paging.operation \in PagedLoops => PagingLoopEnded)

\* a loop that returned after 40 pages, each answered with more = true
C21_Witness ==
    /\ paging.operation \in PagedLoops
    /\ paging.phase = "returned"
    /\ Len(paging.requestedPages) = 40
    /\ \A index \in 1..40 : paging.answers[index] = "true"

\* C30: an answer whose `more` is missing ends the paging, in the search list
\* and in both loops: it is the last answer and no page is requested after it;
\* an answer with an empty results array is accepted, adds nothing and, on a
\* first page, leaves an empty result set
C30_MissingMoreEndsPaging ==
    /\ [](\A index \in 1..Len(paging.answers) :
              paging.answers[index] = "undefined" =>
                  /\ index = Len(paging.answers)
                  /\ paging.phase # "awaiting")
    /\ [][\A more \in MoreValues :
              PageResponds([results |-> ArrayOf(<<>>), more |-> more]) =>
                  /\ paging'.phase = "loop"
                  /\ paging'.visualNovelIdentifierSet = paging.visualNovelIdentifierSet
                  /\ paging'.accumulatedEntries =
                         IF paging.operation = "searchList" /\ paging.activePageNumber = 1
                         THEN <<>> ELSE paging.accumulatedEntries]_vars

\* paging ended by a first answer without `more` and without entries
C30_Witness ==
    /\ paging.answers = <<"undefined">>
    /\ paging.phase \in {"loop", "returned"}
    /\ ~LoopCondition(paging)
    /\ paging.accumulatedEntries = <<>>
    /\ paging.visualNovelIdentifierSet = {}

-----------------------------------------------------------------------------
(* Properties of the functions without side effects *)

\* the identifiers of the labels of an array, a label written as text counting
\* as the number its digits spell
LabelIdentifiersOf(rawLabels) ==
    {rawLabels.items[index].number : index \in
        {i \in 1..Len(rawLabels.items) : rawLabels.items[i].type = "number"}}
    \cup {rawLabels.items[index].id.number : index \in
        {i \in 1..Len(rawLabels.items) :
            rawLabels.items[i].type = "object" /\ rawLabels.items[i].id.type = "number"}}
    \cup {NumberOfDigits(rawLabels.items[index].text) : index \in
        {i \in 1..Len(rawLabels.items) : rawLabels.items[i].type = "string"}}
    \cup {NumberOfDigits(rawLabels.items[index].id.text) : index \in
        {i \in 1..Len(rawLabels.items) :
            rawLabels.items[i].type = "object" /\ rawLabels.items[i].id.type = "string"}}

\* C22: the derived status is the smallest of the entry's label identifiers
\* that is one of 1..6, whatever the order of the labels, and null when none
\* of them is
C22_SmallestStatusLabel ==
    Returned("deriveStatusLabelFromUnknownLabels") /\ evaluation.input.isArray =>
        LET statusLabels == LabelIdentifiersOf(evaluation.input) \cap 1..6
        IN  IF statusLabels = {}
            THEN evaluation.result.isNull
            ELSE /\ ~evaluation.result.isNull
                 /\ evaluation.result.id \in statusLabels
                 /\ \A other \in statusLabels : evaluation.result.id <= other

\* the labels [4, 2] derive 2
C22_Witness ==
    /\ Returned("deriveStatusLabelFromUnknownLabels")
    /\ evaluation.input =
           ArrayOf(<<Primitive(NumericValue(4)), Primitive(NumericValue(2))>>)
    /\ evaluation.result = StatusLabel(2)

\* C23: a status write for target t sends labels_set = [t] and labels_unset =
\* the other five status labels, two disjoint sets that cover 1..6; after any
\* sequence of writes the entry carries exactly one status label, the target
\* of the last write that succeeded
C23_SingleStatusLabel ==
    Returned("updateAuthenticatedUserVisualNovelStatusLabel") =>
        LET written == evaluation.result
            set == Elements(written.requestPayload.labels_set)
            unset == Elements(written.requestPayload.labels_unset)
        IN  /\ written.requestPayload.labels_set = <<written.statusLabelIdentifier>>
            /\ unset = (1..6) \ {written.statusLabelIdentifier}
            /\ Len(written.requestPayload.labels_unset) = 5
            /\ set \cap unset = {}
            /\ set \cup unset = 1..6
            /\ written.lastSucceeded # 0 =>
                   written.labels \cap (1..6) = {written.lastSucceeded}

\* an entry that carried two status labels, after three writes of which the
\* last succeeded
C23_Witness ==
    /\ Returned("updateAuthenticatedUserVisualNovelStatusLabel")
    /\ {1, 2} \subseteq evaluation.input
    /\ evaluation.result.writes = 3
    /\ evaluation.result.succeeded
    /\ evaluation.result.labels \cap (1..6) = {4}

-----------------------------------------------------------------------------
(* Properties of the authentication flow *)

\* C24: a validation that fails leaves no session and no stored token; the
\* session is set, and a token is stored, only by a validation that succeeded,
\* and then they are that validation's token
C24_FailedValidationDropsCredential ==
    [][/\ (\E position \in 1..Len(authentication.pending) :
               ValidationResolves(position, FALSE)) =>
              /\ authentication'.authenticatedSession = NoToken
              /\ authentication'.storedToken = NoToken
       /\ (\/ /\ authentication'.authenticatedSession # NoToken
              /\ authentication'.authenticatedSession # authentication.authenticatedSession
           \/ /\ authentication'.storedToken # NoToken
              /\ authentication'.storedToken # authentication.storedToken) =>
              /\ authentication'.lastValidation.outcome = "succeeded"
              /\ Len(authentication'.pending) < Len(authentication.pending)
              /\ authentication'.authenticatedSession = authentication'.lastValidation.token
              /\ authentication'.storedToken = authentication'.lastValidation.token]_vars

\* a stored token was restored into a session, and a later validation failed
C24_Witness ==
    /\ authentication.lastValidation.outcome = "failed"
    /\ authentication.authenticatedSession = NoToken
    /\ authentication.storedToken = NoToken
    /\ authentication.started >= 2

Blanks == {<<>>, <<" ">>, <<" ", " ">>}

\* the texts that name the record with this number: with or without the
\* prefix, in either letter case, with blanks around
FormsOf(digits) ==
    {before \o prefix \o digits \o after :
        before \in Blanks, after \in Blanks, prefix \in {<<>>, <<"v">>, <<"V">>}}

Canonical(text) ==
    /\ StartsWith(text, "v")
    /\ \A index \in 1..Len(text) : text[index] # "V"

\* C25: normalizing a normalized identifier changes nothing; a normalized
\* identifier is lowercase and starts with the prefix; every form of one
\* record's identifier (prefixed or not, either case, blanks around, or the
\* number itself) normalizes to the same string
C25_NormalizationIdempotentCanonical ==
    /\ Returned("normalizeVisualNovelIdentifier") =>
           /\ evaluation.result.renormalized = evaluation.result.normalized
           /\ Canonical(evaluation.result.normalized)
           /\ \A digits \in {<<"1">>, <<"1", "1">>} :
                  evaluation.input \in FormsOf(digits) =>
                      evaluation.result.normalized = <<"v">> \o digits
    /\ Returned("VisualNovelList.normalizeVisualNovelIdentifier") =>
           /\ evaluation.result.renormalized = evaluation.result.normalized
           /\ ~evaluation.result.normalized.isNull =>
                  Canonical(evaluation.result.normalized.text)
           /\ \A number \in {1, 11} :
                  \/ evaluation.input = NumericValue(number)
                  \/ /\ evaluation.input.type = "string"
                     /\ evaluation.input.text \in FormsOf(DecimalString(number))
                  => evaluation.result.normalized =
                         Identifier(<<"v">> \o DecimalString(number))

\* the form " V1 " normalized to "v1"
C25_Witness ==
    /\ Returned("normalizeVisualNovelIdentifier")
    /\ evaluation.input = <<" ", "V", "1", " ">>
    /\ evaluation.result.normalized = <<"v", "1">>
    /\ evaluation.result.renormalized = <<"v", "1">>

\* the clauses of a built filter: itself when it is not an AND
ClausesOf(filter) == IF filter.op = "and" THEN filter.children ELSE <<filter>>

\* the clauses the panel's filters call for, in the order language, original
\* language, screenshot, description
ExpectedOptionalClauses(filters) ==
    (IF Len(filters.languages) = 0 THEN <<>>
     ELSE IF Len(filters.languages) = 1
     THEN <<Leaf("lang", "=", StringOperand(filters.languages[1]))>>
     ELSE <<[op |-> "or", name |-> "", operator |-> "", value |-> NoOperand,
             children |-> [index \in 1..Len(filters.languages) |->
                              Leaf("lang", "=", StringOperand(filters.languages[index]))]]>>)
    \o (IF Trim(filters.originalLanguage) = <<>> THEN <<>>
        ELSE <<Leaf("olang", "=", TypedOperand(filters.originalLanguage))>>)
    \o (IF filters.onlyWithScreenshots
        THEN <<Leaf("has_screenshot", "=", TrueOperand)>> ELSE <<>>)
    \o (IF filters.onlyWithDescription
        THEN <<Leaf("has_description", "=", TrueOperand)>> ELSE <<>>)

IsPrimaryClause(clause) ==
    /\ clause.op = "leaf"
    /\ <<clause.name, clause.operator>> \in
           {<<"tag", "=">>, <<"developer", "=">>, <<"search", "=">>, <<"id", ">=">>}

\* C26: the built filter is its only clause, unwrapped, when there is exactly
\* one, and otherwise an AND of the primary clause followed by the optional
\* clauses that are set, in the order language (a leaf for one language, an OR
\* of leaves for several), original language, screenshot, description
C26_FilterShape ==
    Returned("buildFiltersFromQueryDescriptor") =>
        LET built == evaluation.result
            expected == ExpectedOptionalClauses(evaluation.input.filters)
        IN  /\ expected = <<>> => IsPrimaryClause(built)
            /\ expected # <<>> =>
                   /\ built.op = "and"
                   /\ Len(built.children) = 1 + Len(expected)
                   /\ IsPrimaryClause(built.children[1])
                   /\ SubSeq(built.children, 2, Len(built.children)) = expected

\* a term with two languages: the AND of the text leaf and an OR of two
\* language leaves
C26_Witness ==
    /\ Returned("buildFiltersFromQueryDescriptor")
    /\ evaluation.input.kind = "text"
    /\ evaluation.input.filters.languages = <<"en", "ja">>
    /\ evaluation.result =
           Combination("and",
               <<Leaf("search", "=", TypedOperand(<<"a">>)),
                 Combination("or", <<Leaf("lang", "=", StringOperand("en")),
                                     Leaf("lang", "=", StringOperand("ja"))>>)>>)

MinimumIdentifierClause == Leaf("id", ">=", StringOperand("v1"))

\* C27: every built filter has exactly one primary clause, chosen by the
\* descriptor's kind: the tag equality for a tag descriptor, the nested
\* developer equality for a developer descriptor, the free-text leaf for a
\* text descriptor with a non-blank term; the minimum-identifier clause only
\* for a blank term and a kind that is neither tag nor developer
C27_PrimaryClauseByKind ==
    Returned("buildFiltersFromQueryDescriptor") =>
        LET queryDescriptor == evaluation.input
            clauses == ClausesOf(evaluation.result)
            primary == clauses[1]
        IN  /\ Cardinality({index \in 1..Len(clauses) : IsPrimaryClause(clauses[index])}) = 1
            /\ queryDescriptor.kind = "tag" =>
                   primary = Leaf("tag", "=", StringOperand(queryDescriptor.tagIdentifier))
            /\ queryDescriptor.kind = "developer" =>
                   primary = Leaf("developer", "=",
                                  FilterOperand(Leaf("id", "=",
                                      StringOperand(queryDescriptor.developerIdentifier))))
            /\ queryDescriptor.kind = "text" /\ Trim(queryDescriptor.term) # <<>> =>
                   primary = Leaf("search", "=", TypedOperand(queryDescriptor.term))
            /\ primary = MinimumIdentifierClause =>
                   /\ Trim(queryDescriptor.term) = <<>>
                   /\ queryDescriptor.kind \notin {"tag", "developer"}

\* C29: two reads that ask for the same thing have the same cache key: the
\* key of a tag metadata lookup depends only on the set of identifiers asked
\* for, and the key of a list query only on the set of languages selected,
\* not on their order nor on repetitions
C29_KeyIndependentOfOrder ==
    /\ Returned("fetchTagMetadataByIds") =>
           (Elements(evaluation.input.first) \ BlankTexts
                = Elements(evaluation.input.second) \ BlankTexts
            => evaluation.result.first = evaluation.result.second)
    /\ Returned("fetchVisualNovelEntries") =>
           (Elements(evaluation.input.first.filters.languages)
                = Elements(evaluation.input.second.filters.languages)
            => evaluation.result.first = evaluation.result.second)

-----------------------------------------------------------------------------
(* Properties of the personal-list cache under concurrent reads and writes *)

\* C35: no personal-list read is served from the cache with a response the
\* remote produced before a write that has completed since: a read overtaken
\* by a write does not put its pre-write response into the cache
C35_NoStaleUserListFromCache ==
    /\ \A cacheKey \in DOMAIN userListQueryCache :
           userListQueryCache[cacheKey].payload.version # 0
    /\ (/\ lastStep.operation = "fetchAuthenticatedUserVisualNovelList"
        /\ lastStep.phase = "call"
        /\ lastStep.event = "returned")
           => lastStep.payload.version # 0

-----------------------------------------------------------------------------
(* Properties of the membership identifier effect *)

\* C37: a membership fetch that settles commits its set only when it was
\* started for the session the list has now, a fetch whose effect run was
\* cleaned up changes nothing when it settles, and a failure of the current
\* fetch empties the set and leaves the error message alone; without a session
\* or without the listread permission the set is empty
C37_MembershipOfCurrentSession ==
    /\ []((membership.authenticatedSession = NoSession
             \/ ~membership.hasListReadPermission)
                => membership.userListIdentifierSet = {})
    /\ [][/\ membership'.lastEvent = "committed" =>
                 membership'.userListIdentifierSet
                     = IdentifierSetOf(membership'.authenticatedSession)
          /\ membership'.lastEvent = "discarded" =>
                 membership'.userListIdentifierSet = membership.userListIdentifierSet
          /\ membership'.lastEvent = "emptied" =>
                 /\ membership'.userListIdentifierSet = {}
                 /\ UNCHANGED networkErrorMessage]_vars

\* the set of the second session is displayed and the late result of the
\* first session's fetch has been discarded
C37_Witness ==
    /\ membership.lastEvent = "discarded"
    /\ membership.authenticatedSession = 2
    /\ membership.userListIdentifierSet = IdentifierSetOf(2)

-----------------------------------------------------------------------------
(* Properties of the detail view *)

\* the values on display that a fetch flow writes
DetailDisplay ==
    <<detailView.detailedVisualNovelData, detailView.storeLinkEntries,
      detailView.tagCategoryByIdentifier, detailView.networkErrorMessage,
      detailView.isDataLoading, detailView.isSupplementalDataLoading>>

\* C31: the record, the store links, the tag categories and the error message
\* on display were written by the flow of the current selection or are the reset
\* values, and a response of an earlier selection's flow changes none of them
\* nor the loading flags
C31_LateDetailResponseDiscarded ==
    /\ [](\A written \in {detailView.detailedVisualNovelData.run,
                          detailView.storeLinkEntries.run,
                          detailView.tagCategoryByIdentifier.run,
                          detailView.networkErrorMessage.run} :
              written \in {0, detailView.runs})
    /\ [][detailView'.lastEvent = "discarded" => UNCHANGED DetailDisplay]_vars

\* the second selection's record is displayed with its supplemental part, and
\* a response of the first selection's flow has arrived after it
C31_Witness ==
    /\ detailView.lastEvent = "discarded"
    /\ detailView.runs = 2
    /\ detailView.detailedVisualNovelData = [run |-> 2, hasSupplemental |-> TRUE]

-----------------------------------------------------------------------------
(* Properties of the character view *)

\* C38: when isTraitLookupLoading is false the trait matches on display are
\* those of the selected trait (or none), and the flag is true while the lookup
\* of the last selection is in flight
C38_TraitMatchesOfSelectedTrait ==
    /\ ~characterView.isTraitLookupLoading =>
           /\ characterView.traitMatchedCharacters.traitId
                  \in {NoTrait, characterView.selectedTraitId}
           /\ characterView.traitMatchedVisualNovels.traitId
                  \in {NoTrait, characterView.selectedTraitId}
    /\ (\E position \in 1..Len(characterView.lookups) :
            characterView.lookups[position].id = characterView.started)
           => characterView.isTraitLookupLoading

-----------------------------------------------------------------------------
(* Properties of the list-write handlers *)

\* C39: a step of the add or update handler taken without a session, or with
\* a session that lacks listwrite, issues no request, ends with the error thrown
\* and leaves the personal-list cache and the membership set as they were
C39_WriteRequiresPermission ==
    [][(/\ listWrite'.lastEvent \in {"threw", "requested"}
        /\ ~(/\ listWrite.authenticatedSession.present
             /\ "listwrite" \in listWrite.authenticatedSession.permissions))
          => /\ listWrite'.lastEvent = "threw"
             /\ listWrite'.addOperationMessage \notin {"null", "done"}
             /\ listWrite'.requests = listWrite.requests
             /\ listWrite'.pending = listWrite.pending
             /\ listWrite'.userListQueryCache = listWrite.userListQueryCache
             /\ listWrite'.userListIdentifierSet = listWrite.userListIdentifierSet]_vars

\* a handler has thrown for a session with listread only, with a response in
\* the cache and an identifier in the membership set
C39_Witness ==
    /\ listWrite.lastEvent = "threw"
    /\ listWrite.authenticatedSession = SessionWith({"listread"})
    /\ listWrite.userListQueryCache # {}
    /\ listWrite.userListIdentifierSet # {}

====
